---- MODULE Spec2Model ----
(***************************************************************************)
(* A model of kadirpekel/gql: the gql struct-tag parser (tag.go), the      *)
(* resolver signature classifier (resolveinfo.go, arginfo.go) and the      *)
(* reflective schema builder (builder.go).                                 *)
(*                                                                         *)
(* Strings are sequences of symbols.  Go types are sequences of strings:   *)
(* the wrappers "ptr" and "slice" followed by the name of a base type.     *)
(***************************************************************************)
EXTENDS Integers, Sequences, FiniteSets, TLC

VARIABLES
    tag,        \* the tag string handed to ParseGqlTag
    tagRes,     \* what ParseGqlTag returned for it
    prog,       \* the struct types the Go program declares
    fn,         \* the signature of the callable handed to NewResolveInfo
    isBound,    \* the IsBound argument of NewResolveInfo
    rinfo,      \* what NewResolveInfo returned: the ResolveInfo or the error
    b,          \* the SchemaBuilder
    log,        \* the calls made on the builder so far, with what they returned
    resolves    \* the invocations of ResolveInfo.Resolve, each with its locals

tagVars == <<tag, tagRes>>

classifyVars == <<fn, isBound, rinfo>>

builderVars == <<b, log>>

vars == <<tag, tagRes, prog, fn, isBound, rinfo, b, log, resolves>>

(***************************************************************************)
(* Bounds of the model.                                                    *)
(***************************************************************************)
MaxTagLen == 4

\* Parameters and returns of the callables that exceed the classifier's limits.
MaxArityIn == 5

MaxArityOut == 3

\* Fields of a struct type that the input mapper is given.
MaxInputFields == 2

\* Fields of a struct type that the output mapper is given.
MaxFields == 2

\* Parameters of a callable over the wrapped marker types.
MaxMarkerParams == 2

\* Calls made on one builder.
MaxCalls == 2

\* Fields of the root struct type of a schema build.
MaxRootFields == 1

\* Calls of the mappers that the call stack holds.
MaxDepth == 10

\* Parameters, the receiver aside, of the callables that Resolve is run on.
MaxResolveParams == 2

\* Invocations of Resolve that run at the same time.
MaxInvocations == 2

(***************************************************************************)
(* tag.go: the gql struct tag.                                             *)
(*                                                                         *)
(* A tag string is a sequence over TagSymbols.  "," is the separator that  *)
(* strings.Split cuts at; "nonNull" stands for the seven characters of the *)
(* flag literal; "a" and "-" are ordinary characters, so that every text   *)
(* that is not the flag literal is some other sequence.                    *)
(***************************************************************************)
Comma == ","

NonNullLiteral == <<"nonNull">>

TagSymbols == {"a", "-", Comma, "nonNull"}

RECURSIVE SeqsUpTo(_, _)
SeqsUpTo(S, n) ==
    IF n = 0 THEN {<<>>}
    ELSE LET shorter == SeqsUpTo(S, n - 1)
         IN  shorter \cup {Append(s, x) : s \in {t \in shorter : Len(t) = n - 1}, x \in S}

TagStrings == SeqsUpTo(TagSymbols, MaxTagLen)

\* strings.Split(tag, ","): the segments between the separators, in order;
\* a string without separator is its own single segment, the empty string too.
RECURSIVE SplitFrom(_, _)
SplitFrom(s, cur) ==
    IF s = <<>> THEN <<cur>>
    ELSE IF Head(s) = Comma THEN <<cur>> \o SplitFrom(Tail(s), <<>>)
    ELSE SplitFrom(Tail(s), Append(cur, Head(s)))

Split(s) == SplitFrom(s, <<>>)

\* The GqlTag struct; ok = FALSE is the (nil, error) return.
GqlTag(name, nonNull) == [ok |-> TRUE, FieldName |-> name, NonNull |-> nonNull]

TagError == [ok |-> FALSE, FieldName |-> <<>>, NonNull |-> FALSE]

\* ParseGqlTag without the comparison of the second segment with the literal.
ParseGqlTagNoFlagCheck(t) ==
    LET parts == Split(t)
    IN  IF Len(parts) > 2 THEN TagError
        ELSE GqlTag(parts[1], Len(parts) = 2)

\* ParseGqlTag keeping the whole tag string as the field name.
ParseGqlTagWholeName(t) ==
    LET parts == Split(t)
    IN  IF Len(parts) > 2 THEN TagError
        ELSE IF Len(parts) = 2
             THEN IF parts[2] = NonNullLiteral THEN GqlTag(t, TRUE)
                  ELSE TagError
             ELSE GqlTag(t, FALSE)

ParseGqlTag(t) ==
    LET parts == Split(t)
    IN  IF Len(parts) > 2 THEN TagError
        ELSE IF Len(parts) = 2
             THEN IF parts[2] = NonNullLiteral THEN GqlTag(parts[1], TRUE)
                  ELSE TagError
             ELSE GqlTag(parts[1], FALSE)

\* Before ParseGqlTag has run on the string.
Unparsed == [ok |-> FALSE, FieldName |-> <<"?">>, NonNull |-> FALSE]

(***************************************************************************)
(* Go types, as reflect.Type presents them.                                *)
(*                                                                         *)
(* A type is a sequence: zero or more wrappers "ptr" / "slice", then the   *)
(* name of a base type.  prog maps the name of every struct type that the  *)
(* program declares to its declaration: the package, the type name, the    *)
(* name its GraphQLTypeName method returns ("" without such a method), the *)
(* fields in declaration order (Go name, gql tag, type) and the methods in *)
(* the order of reflect.Type.Method.                                       *)
(***************************************************************************)
ContextType == <<"Context">>          \* context.Context, an interface

InfoType == <<"Info">>                \* graphql.ResolveInfo, a struct

ErrorType == <<"error">>              \* error, an interface

StringType == <<"string">>

Tagged == <<"Tagged">>                \* struct { Field string `gql:"a"` }

NoTagged == <<"NoTagged">>            \* struct { Field string }

Ptr(t) == <<"ptr">> \o t

SliceOf(t) == <<"slice">> \o t

IntType == <<"int">>

MapType == <<"map">>                  \* some map[K]V

TimeType == <<"Time">>                \* time.Time, a struct

Field(name, fieldTag, type) == [name |-> name, tag |-> fieldTag, type |-> type]

Struct(pkg, name, fields) ==
    [pkg |-> pkg, name |-> name, override |-> "", fields |-> fields, methods |-> <<>>]

\* The struct types of the classifier's tests; graphql.ResolveInfo has no gql tag.
ClassifierProgram ==
    [Tagged   |-> Struct("gql", "Tagged", <<Field("Field", <<"a">>, StringType)>>),
     NoTagged |-> Struct("gql", "NoTagged", <<Field("Field", <<>>, StringType)>>),
     Info     |-> Struct("graphql", "ResolveInfo",
                         <<Field("FieldName", <<>>, StringType),
                           Field("Path", <<>>, StringType)>>)]

BaseName(t) == t[Len(t)]

\* reflect.Type.Kind()
Kind(t) ==
    IF Len(t) > 1 THEN Head(t)
    ELSE IF BaseName(t) \in DOMAIN prog \cup {"Time"} THEN "struct"
    ELSE IF BaseName(t) \in {"Context", "error", "interface"} THEN "interface"
    ELSE BaseName(t)

\* time.Time: three unexported fields, none of them tagged.
TimeStruct ==
    Struct("time", "Time",
           <<Field("wall", <<>>, IntType), Field("ext", <<>>, IntType),
             Field("loc", <<>>, Ptr(IntType))>>)

\* The declaration of the struct type t.
Decl(t) == IF BaseName(t) = "Time" THEN TimeStruct ELSE prog[BaseName(t)]

\* reflect.VisibleFields(t) of a struct type: no struct of the model embeds
\* another, so these are the fields of t.Field(0) .. t.Field(NumField()-1).
VisibleFields(t) == Decl(t).fields

\* reflect.Type.Elem() of a pointer or slice type
Elem(t) == Tail(t)

(***************************************************************************)
(* arginfo.go                                                              *)
(***************************************************************************)
\* NewArgInfo keeping the type as it is: no wrapping is removed.
NewArgInfoWrapped(argType, index) ==
    [Type     |-> argType,
     RealType |-> argType,
     Index    |-> index,
     IsPtr    |-> Kind(argType) = "ptr",
     IsSlice  |-> Kind(argType) = "slice"]

NewArgInfo(argType, index) ==
    LET isPtr   == Kind(argType) = "ptr"
        isSlice == Kind(argType) = "slice"
    IN  [Type     |-> argType,
         RealType |-> IF isPtr \/ isSlice THEN Elem(argType) ELSE argType,
         Index    |-> index,
         IsPtr    |-> isPtr,
         IsSlice  |-> isSlice]

\* A nil *ArgInfo.
Nil == [nil |-> TRUE]

(***************************************************************************)
(* resolveinfo.go                                                          *)
(*                                                                         *)
(* A callable is [in, out]: its parameter types (a method's receiver is    *)
(* parameter 1, Go's In(0)) and its return types.  Index fields keep Go's  *)
(* zero-based positions.                                                   *)
(***************************************************************************)
hasStructValidGqlTag(t) ==
    \E i \in 1..Len(VisibleFields(t)) :
        LET g == ParseGqlTag(VisibleFields(t)[i].tag)
        IN  g.ok /\ g.FieldName # <<>>

\* The ResolveInfo under construction; err = "" while no error was returned.
EmptyResolveInfo(bound) ==
    [err |-> "", IsBound |-> bound, Source |-> Nil, Context |-> Nil, Info |-> Nil,
     Input |-> Nil, Output |-> Nil, Error |-> Nil]

\* A (nil, error) return of NewResolveInfo.
Rejected(bound, why) == [EmptyResolveInfo(bound) EXCEPT !.err = why]

\* Validate without the check of the output struct's tags.
ValidateNoOutputCheck(r) ==
    IF r.Input # Nil /\ (Kind(r.Input.RealType) # "struct" \/ r.Input.IsSlice)
    THEN "InputNotStruct"
    ELSE IF r.Input # Nil /\ ~hasStructValidGqlTag(r.Input.RealType)
    THEN "InputNoTag"
    ELSE IF r.Output = Nil /\ ~r.IsBound THEN "MissingOutput"
    ELSE ""

\* Validate asking every callable, bound or not, for an output.
ValidateOutputAlwaysNeeded(r) ==
    IF r.Input # Nil /\ (Kind(r.Input.RealType) # "struct" \/ r.Input.IsSlice)
    THEN "InputNotStruct"
    ELSE IF r.Input # Nil /\ ~hasStructValidGqlTag(r.Input.RealType)
    THEN "InputNoTag"
    ELSE IF r.Output = Nil THEN "MissingOutput"
    ELSE IF Kind(r.Output.RealType) = "struct" /\ ~hasStructValidGqlTag(r.Output.RealType)
    THEN "OutputNoTag"
    ELSE ""

\* Validate taking a slice of structs for an input.
ValidateSliceInput(r) ==
    IF r.Input # Nil /\ Kind(r.Input.RealType) # "struct"
    THEN "InputNotStruct"
    ELSE IF r.Input # Nil /\ ~hasStructValidGqlTag(r.Input.RealType)
    THEN "InputNoTag"
    ELSE IF r.Output = Nil
    THEN IF ~r.IsBound THEN "MissingOutput" ELSE ""
    ELSE IF Kind(r.Output.RealType) = "struct" /\ ~hasStructValidGqlTag(r.Output.RealType)
    THEN "OutputNoTag"
    ELSE ""

Validate(r) ==
    IF r.Input # Nil /\ (Kind(r.Input.RealType) # "struct" \/ r.Input.IsSlice)
    THEN "InputNotStruct"
    ELSE IF r.Input # Nil /\ ~hasStructValidGqlTag(r.Input.RealType)
    THEN "InputNoTag"
    ELSE IF r.Output = Nil
    THEN IF ~r.IsBound THEN "MissingOutput" ELSE ""
    ELSE IF Kind(r.Output.RealType) = "struct" /\ ~hasStructValidGqlTag(r.Output.RealType)
    THEN "OutputNoTag"
    ELSE ""

\* The parameter loop taking a marker type that follows the input for a
\* second input.
RECURSIVE ClassifyInMarkersFirst(_, _, _)
ClassifyInMarkersFirst(f, i, r) ==
    IF i >= Len(f.in) THEN r
    ELSE LET argInfo == NewArgInfo(f.in[i + 1], i)
         IN  IF argInfo.RealType = ContextType /\ r.Input = Nil
             THEN ClassifyInMarkersFirst(f, i + 1, [r EXCEPT !.Context = argInfo])
             ELSE IF argInfo.RealType = InfoType /\ r.Input = Nil
             THEN ClassifyInMarkersFirst(f, i + 1, [r EXCEPT !.Info = argInfo])
             ELSE IF r.Input = Nil
             THEN ClassifyInMarkersFirst(f, i + 1, [r EXCEPT !.Input = argInfo])
             ELSE [r EXCEPT !.err = "AmbiguousInput"]

\* The parameter loop keeping the last parameter that is no marker as the
\* input instead of returning the error.
RECURSIVE ClassifyInLastWins(_, _, _)
ClassifyInLastWins(f, i, r) ==
    IF i >= Len(f.in) THEN r
    ELSE LET argInfo == NewArgInfo(f.in[i + 1], i)
         IN  IF argInfo.RealType = ContextType
             THEN ClassifyInLastWins(f, i + 1, [r EXCEPT !.Context = argInfo])
             ELSE IF argInfo.RealType = InfoType
             THEN ClassifyInLastWins(f, i + 1, [r EXCEPT !.Info = argInfo])
             ELSE ClassifyInLastWins(f, i + 1, [r EXCEPT !.Input = argInfo])

\* The loop over the parameters from Go index i on.
RECURSIVE ClassifyIn(_, _, _)
ClassifyIn(f, i, r) ==
    IF i >= Len(f.in) THEN r
    ELSE LET argInfo == NewArgInfo(f.in[i + 1], i)
         IN  IF argInfo.RealType = ContextType
             THEN ClassifyIn(f, i + 1, [r EXCEPT !.Context = argInfo])
             ELSE IF argInfo.RealType = InfoType
             THEN ClassifyIn(f, i + 1, [r EXCEPT !.Info = argInfo])
             ELSE IF r.Input = Nil
             THEN ClassifyIn(f, i + 1, [r EXCEPT !.Input = argInfo])
             ELSE [r EXCEPT !.err = "AmbiguousInput"]

\* The return loop keeping the last return that is no error as the output
\* instead of returning the error.
RECURSIVE ClassifyOutLastWins(_, _, _)
ClassifyOutLastWins(f, i, r) ==
    IF i >= Len(f.out) THEN r
    ELSE LET argInfo == NewArgInfo(f.out[i + 1], i)
         IN  IF argInfo.RealType = ErrorType
             THEN ClassifyOutLastWins(f, i + 1, [r EXCEPT !.Error = argInfo])
             ELSE ClassifyOutLastWins(f, i + 1, [r EXCEPT !.Output = argInfo])

\* The loop over the returns from Go index i on.
RECURSIVE ClassifyOut(_, _, _)
ClassifyOut(f, i, r) ==
    IF i >= Len(f.out) THEN r
    ELSE LET argInfo == NewArgInfo(f.out[i + 1], i)
         IN  IF argInfo.RealType = ErrorType
             THEN ClassifyOut(f, i + 1, [r EXCEPT !.Error = argInfo])
             ELSE IF r.Output = Nil
             THEN ClassifyOut(f, i + 1, [r EXCEPT !.Output = argInfo])
             ELSE [r EXCEPT !.err = "AmbiguousOutput"]

MaxArgsUnbound == 3

MaxArgsBound == 4

MaxReturns == 2

\* fn.Type().NumIn() > maxNumberOfArgs, with one argument too many let through.
TooManyArgumentsOffByOne(f, bound) ==
    Len(f.in) > (IF bound THEN MaxArgsBound ELSE MaxArgsUnbound) + 1

TooManyArguments(f, bound) ==
    Len(f.in) > (IF bound THEN MaxArgsBound ELSE MaxArgsUnbound)

TooManyReturns(f) == Len(f.out) > MaxReturns

NewResolveInfo(f, bound) ==
    LET baseIndex == IF bound THEN 1 ELSE 0
        source    == IF bound /\ Len(f.in) > 0 THEN NewArgInfo(f.in[1], 0) ELSE Nil
        r0        == [EmptyResolveInfo(bound) EXCEPT !.Source = source]
    IN  IF bound /\ Len(f.in) = 0 THEN Rejected(bound, "NoReceiver")
        ELSE IF bound /\ Kind(source.RealType) # "struct"
        THEN Rejected(bound, "ReceiverNotStruct")
        ELSE IF TooManyArguments(f, bound) THEN Rejected(bound, "TooManyArguments")
        ELSE IF TooManyReturns(f) THEN Rejected(bound, "TooManyReturns")
        ELSE LET r1 == ClassifyIn(f, baseIndex, r0)
             IN  IF r1.err # "" THEN Rejected(bound, r1.err)
                 ELSE LET r2 == ClassifyOut(f, 0, r1)
                      IN  IF r2.err # "" THEN Rejected(bound, r2.err)
                          ELSE IF Validate(r2) # "" THEN Rejected(bound, Validate(r2))
                          ELSE r2

\* Before NewResolveInfo has run on the callable.
Unclassified == Rejected(FALSE, "?")

(***************************************************************************)
(* builder.go: the schema builder that carries type deduplication.         *)
(*                                                                         *)
(* A Go map is a function over the keys it holds.  A schema node is a      *)
(* record with a kind; an input object is its name and fields.  A text     *)
(* that the builder formats is, like a tag, a sequence of symbols.         *)
(***************************************************************************)
Put(m, k, v) == [x \in DOMAIN m \cup {k} |-> IF x = k THEN v ELSE m[x]]

NoEntries == <<>>

Scalar(name) == [kind |-> name]

DateTime == Scalar("DateTime")           \* createDateTimeScalar()

NewList(of) == [kind |-> "List", of |-> of]

NewNonNull(of) == [kind |-> "NonNull", of |-> of]

NewInputObject(name, fields) == [kind |-> "InputObject", name |-> name, fields |-> fields]

RegisterCustomType(st, goType, graphqlType) ==
    [st EXCEPT !.customTypes = Put(@, goType, graphqlType)]

\* The nil interface{} in the place of a root instance; an instance is
\* modelled by its type.
NoInstance == <<"nil">>

\* Both RegisterCustomType calls of NewSchemaBuilder pass the type time.Time.
NewSchemaBuilder ==
    RegisterCustomType(
        RegisterCustomType(
            [query                |-> NoInstance,
             mutation             |-> NoInstance,
             subscription         |-> NoInstance,
             typeRegistry         |-> NoEntries,
             customTypes          |-> NoEntries,
             processing           |-> {},
             fieldsCache          |-> NoEntries,
             rootInstances        |-> {},
             typeHashRegistry     |-> NoEntries,
             allowSharedTypes     |-> TRUE,
             structHashCache      |-> NoEntries,
             registeredInputTypes |-> {},
             objects              |-> <<>>,      \* the *graphql.Object values made
             raised               |-> <<>>,      \* the errors made, a history
             processed            |-> {},        \* all that processing held
             expanding            |-> <<>>,      \* the expansions not yet returned
             strayed              |-> FALSE],    \* processing once differed from them
            TimeType, DateTime),
        TimeType, DateTime)

GetGqlTag(field) == ParseGqlTag(field.tag)

\* reflect.Type.String(): "*" and "[]" before the element, a struct is
\* package.Name.
RECURSIVE TypeString(_)
TypeString(t) ==
    IF Kind(t) = "ptr" THEN <<"*">> \o TypeString(Elem(t))
    ELSE IF Kind(t) = "slice" THEN <<"[]">> \o TypeString(Elem(t))
    ELSE IF Kind(t) = "struct" THEN <<Decl(t).pkg, ".", Decl(t).name>>
    ELSE t

\* The "%s:%s;" texts of the fields from the i-th on.
RECURSIVE HashedFields(_, _)
HashedFields(fields, i) ==
    IF i > Len(fields) THEN <<>>
    ELSE LET g == GetGqlTag(fields[i])
         IN  IF ~g.ok \/ g.FieldName = <<>> \/ g.FieldName = <<"-">>
             THEN HashedFields(fields, i + 1)
             ELSE g.FieldName \o <<":">> \o TypeString(fields[i].type) \o <<";">>
                      \o HashedFields(fields, i + 1)

\* The text that structHash feeds to SHA-256.  The digest is taken to be
\* injective: two types share a hash exactly when they share this text.
HashedText(definition) ==
    <<"struct:">> \o TypeString(definition) \o <<":">>
        \o HashedFields(VisibleFields(definition), 1)

structHash(definition, st) ==
    IF definition \in DOMAIN st.structHashCache
    THEN [st |-> st, hash |-> st.structHashCache[definition]]
    ELSE LET hash == HashedText(definition)
         IN  [st   |-> [st EXCEPT !.structHashCache = Put(@, definition, hash)],
              hash |-> hash]

\* What a mapper call hands back: the builder as the call left it, the node
\* or the error of a return, or the crash of a call stack that outgrew its
\* limit.
Returned(st, type) == [st |-> st, type |-> type, err |-> "", crash |-> FALSE]

\* The history of the errors made so far, each with the method whose
\* classification made it; it is no field of the SchemaBuilder.
Raise(st, why, method) ==
    [st EXCEPT !.raised = Append(@, [why |-> why, method |-> method])]

Failed(st, why) == [st |-> Raise(st, why, <<>>), type |-> Nil, err |-> why, crash |-> FALSE]

\* fmt.Errorf("Unsupported type: %s", definition.Kind())
UnsupportedType(kind) ==
    IF kind = "map" THEN "UnsupportedType: map" ELSE "UnsupportedType"

StackOverflow(st) == [st |-> st, type |-> Nil, err |-> "", crash |-> TRUE]

IsFailure(r) == r.crash \/ r.err # ""

\* F of the value of e, which is computed once: a local variable of the code.
Let(e, F(_)) == CHOOSE y \in {F(x) : x \in {e}} : TRUE

\* result, err := r; if err != nil { return nil, err }; then F(result).
Then(r, F(_)) == Let(r, LAMBDA x : IF IsFailure(x) THEN x ELSE F(x))

\* The name of the GraphQLTypeName method, or the type's own name.
OwnTypeName(definition) ==
    IF Decl(definition).override # "" THEN Decl(definition).override
    ELSE Decl(definition).name

RECURSIVE TypeAsGraphqlArgumentConfig(_, _, _)
RECURSIVE InputObjectFields(_, _, _, _, _)
\* The field loop of the struct case from the i-th field on; on return,
\* type holds the fields collected.
InputObjectFields(definition, i, fields, st, depth) ==
    IF i > Len(Decl(definition).fields) THEN Returned(st, fields)
    ELSE LET field == Decl(definition).fields[i]
             g     == GetGqlTag(field)
         IN  IF ~g.ok THEN Failed(st, "InvalidTag")
             ELSE IF g.FieldName = <<>> \/ g.FieldName = <<"-">>
             THEN InputObjectFields(definition, i + 1, fields, st, depth)
             ELSE Then(TypeAsGraphqlArgumentConfig(field.type, st, depth - 1),
                       LAMBDA c :
                           InputObjectFields(
                               definition, i + 1,
                               Put(fields, g.FieldName,
                                   IF g.NonNull THEN NewNonNull(c.type) ELSE c.type),
                               c.st, depth))

\* The struct case once typeName and useDeduplication are set.
NamedInputObject(definition, typeName, useDeduplication, st, depth) ==
    IF typeName \in st.registeredInputTypes /\ useDeduplication
    THEN Returned(st, NewInputObject(typeName, NoEntries))
    ELSE Then(InputObjectFields(definition, 1, NoEntries, st, depth),
              LAMBDA l :
                  Returned([l.st EXCEPT !.registeredInputTypes = @ \cup {typeName}],
                           NewInputObject(typeName, l.type)))

\* The struct case: the type's name, the lookup of its hash, the fields.
InputObjectOf(definition, st, depth) ==
    IF ~st.allowSharedTypes
    THEN NamedInputObject(definition, OwnTypeName(definition), FALSE, st, depth)
    ELSE Let(structHash(definition, st),
             LAMBDA h :
                 IF h.hash \in DOMAIN h.st.typeHashRegistry
                 THEN NamedInputObject(definition, h.st.typeHashRegistry[h.hash], TRUE,
                                       h.st, depth)
                 ELSE NamedInputObject(
                          definition, OwnTypeName(definition), FALSE,
                          [h.st EXCEPT !.typeHashRegistry =
                               Put(@, h.hash, OwnTypeName(definition))],
                          depth))

\* depth is the room left on the call stack, counted in calls.
TypeAsGraphqlArgumentConfig(definition, st, depth) ==
    IF depth = 0 THEN StackOverflow(st)
    ELSE IF definition \in DOMAIN st.customTypes
    THEN Returned(st, st.customTypes[definition])
    ELSE IF Kind(definition) = "int" THEN Returned(st, Scalar("Int"))
    ELSE IF Kind(definition) = "string" THEN Returned(st, Scalar("String"))
    ELSE IF Kind(definition) = "bool" THEN Returned(st, Scalar("Boolean"))
    ELSE IF Kind(definition) = "float" THEN Returned(st, Scalar("Float"))
    ELSE IF Kind(definition) = "slice"
    THEN Then(TypeAsGraphqlArgumentConfig(Elem(definition), st, depth - 1),
              LAMBDA e : Returned(e.st, NewList(e.type)))
    ELSE IF Kind(definition) = "ptr"
    THEN TypeAsGraphqlArgumentConfig(Elem(definition), st, depth - 1)
    ELSE IF Kind(definition) = "struct" THEN InputObjectOf(definition, st, depth)
    ELSE Failed(st, UnsupportedType(Kind(definition)))

\* populateGraphqlFieldArgs from the i-th field of the arguments struct on;
\* on return, type holds graphqlField.Args.
RECURSIVE FieldArgs(_, _, _, _, _)
FieldArgs(definition, i, args, st, depth) ==
    IF i > Len(Decl(definition).fields) THEN Returned(st, args)
    ELSE LET field == Decl(definition).fields[i]
             g     == GetGqlTag(field)
         IN  IF ~g.ok THEN Failed(st, "InvalidTag")
             ELSE IF g.FieldName = <<>> \/ g.FieldName = <<"-">>
             THEN FieldArgs(definition, i + 1, args, st, depth)
             ELSE Then(TypeAsGraphqlArgumentConfig(field.type, st, depth - 1),
                       LAMBDA c :
                           FieldArgs(
                               definition, i + 1,
                               Put(args, g.FieldName,
                                   IF g.NonNull THEN NewNonNull(c.type) ELSE c.type),
                               c.st, depth))

populateGraphqlFieldArgs(definition, st, depth) ==
    LET struct == IF Kind(definition) = "ptr" THEN Elem(definition) ELSE definition
    IN  IF depth = 0 THEN StackOverflow(st)
        ELSE IF Kind(struct) # "struct" THEN Failed(st, "ArgumentsNotStruct")
        ELSE FieldArgs(struct, 1, NoEntries, st, depth)

(***************************************************************************)
(* The classifier that the builder calls on a method: NewResolveInfo with  *)
(* the method's Func alone, the receiver always at index 0.                *)
(***************************************************************************)
ValidateResolver(r) ==
    IF r.Input # Nil /\ (Kind(r.Input.RealType) # "struct" \/ r.Input.IsSlice)
    THEN "InputNotStruct"
    ELSE IF r.Input # Nil /\ ~hasStructValidGqlTag(r.Input.RealType)
    THEN "InputNoTag"
    ELSE IF r.Error = Nil THEN "MissingError"
    ELSE IF r.Output = Nil THEN "MissingOutput"
    ELSE IF Kind(r.Output.RealType) = "struct" /\ ~hasStructValidGqlTag(r.Output.RealType)
    THEN "OutputNoTag"
    ELSE ""

NewMethodResolveInfo(f) ==
    LET source == IF Len(f.in) > 0 THEN NewArgInfo(f.in[1], 0) ELSE Nil
        r0     == [EmptyResolveInfo(TRUE) EXCEPT !.Source = source]
    IN  IF Len(f.in) = 0 THEN Rejected(TRUE, "NoReceiver")
        ELSE IF Kind(source.RealType) # "struct" THEN Rejected(TRUE, "ReceiverNotStruct")
        ELSE IF TooManyArguments(f, TRUE) THEN Rejected(TRUE, "TooManyArguments")
        ELSE IF TooManyReturns(f) THEN Rejected(TRUE, "TooManyReturns")
        ELSE LET r1 == ClassifyIn(f, 1, r0)
             IN  IF r1.err # "" THEN Rejected(TRUE, r1.err)
                 ELSE LET r2 == ClassifyOut(f, 0, r1)
                      IN  IF r2.err # "" THEN Rejected(TRUE, r2.err)
                          ELSE IF ValidateResolver(r2) # ""
                          THEN Rejected(TRUE, ValidateResolver(r2))
                          ELSE r2

(***************************************************************************)
(* Methods.  A method is its name, whether its receiver is a pointer, its  *)
(* parameters after the receiver and its returns.  A name is a sequence of *)
(* symbols, the first one its initial letter.                              *)
(***************************************************************************)
Method(name, ptrRecv, in, out) ==
    [name |-> name, ptrRecv |-> ptrRecv, in |-> in, out |-> out]

\* The GraphQLTypeName method of a type that declares an override.
GraphQLTypeNameMethod == Method(<<"G", "raphQLTypeName">>, FALSE, <<>>, <<StringType>>)

\* reflect.Type.Method(0 .. NumMethod()-1): a struct type has the methods of
\* value receivers, a pointer to it those of pointer receivers too.
Methods(definition) ==
    LET d        == Decl(definition)
        declared == IF Kind(definition) = "ptr" THEN d.methods
                    ELSE SelectSeq(d.methods, LAMBDA m : ~m.ptrRecv)
    IN  IF d.override # "" THEN <<GraphQLTypeNameMethod>> \o declared ELSE declared

ToLower(c) ==
    CASE c = "A" -> "a" [] c = "B" -> "b" [] c = "F" -> "f" [] c = "G" -> "g"
      [] c = "M" -> "m" [] c = "O" -> "o" [] c = "P" -> "p" [] c = "R" -> "r"
      [] c = "S" -> "s" [] c = "T" -> "t" [] OTHER -> c

\* strings.ToLower(method.Name[0:1]) + method.Name[1:]
LowerFirst(name) == <<ToLower(Head(name))>> \o Tail(name)

skipMethods ==
    {<<"t", "ableName">>, <<"t", "ableNames">>,
     <<"b", "eforeCreate">>, <<"a", "fterCreate">>,
     <<"b", "eforeUpdate">>, <<"a", "fterUpdate">>,
     <<"b", "eforeDelete">>, <<"a", "fterDelete">>,
     <<"b", "eforeSave">>, <<"a", "fterSave">>,
     <<"a", "fterFind">>, <<"s", "tring">>,
     <<"g", "raphQLTypeName">>, <<"g", "etGroups">>}

(***************************************************************************)
(* TypeAsGraphqlField.  A *graphql.Object is a reference: objects holds    *)
(* the objects made, in the order of their making, and an object node is   *)
(* the index of one.  An object holds its name and either its fields or,   *)
(* for a placeholder, the type whose fieldsCache entry its thunk reads; of *)
(* records for which struct type it was made.                              *)
(***************************************************************************)
NewGraphqlField(type, args, resolve) == [Type |-> type, Args |-> args, Resolve |-> resolve]

ObjectNode(id) == [kind |-> "Object", id |-> id]

\* graphql.NewObject: the builder with the object made, and its node.
NewObject(st, name, lazy, of, fields) ==
    [st   |-> [st EXCEPT !.objects =
                   Append(@, [name |-> name, lazy |-> lazy, of |-> of, fields |-> fields])],
     node |-> ObjectNode(Len(st.objects) + 1)]

\* The elements of a sequence.
Range(seq) == {seq[i] : i \in 1..Len(seq)}

\* The history of the recursion, which is no field of the SchemaBuilder:
\* expanding holds the struct types whose expansion was entered and has not
\* returned, innermost last, and strayed records that the processing set
\* differed from them after an entry or a return.
Compared(st) ==
    [st EXCEPT !.strayed = @ \/ st.processing # Range(st.expanding)]

Entered(st, realDefinition) ==
    Compared([st EXCEPT !.expanding = Append(@, realDefinition)])

Left(r) ==
    [r EXCEPT !.st = Compared([@ EXCEPT !.expanding = SubSeq(@, 1, Len(@) - 1)])]

\* A deferred delete that a return with an error skips.
DeferredOnSuccess(r, realDefinition) ==
    IF r.err # "" THEN r
    ELSE [r EXCEPT !.st = [@ EXCEPT !.processing = @ \ {realDefinition}]]

\* The deferred delete(b.processing, realDefinition) on a return.
Deferred(r, realDefinition) ==
    [r EXCEPT !.st = [@ EXCEPT !.processing = @ \ {realDefinition}]]

RECURSIVE TypeAsGraphqlField(_, _, _)
RECURSIVE ObjectFieldsDashKept(_, _, _, _, _)
\* The loop over the struct's fields skipping the untagged ones only.
ObjectFieldsDashKept(realDefinition, i, fields, st, depth) ==
    IF i > Len(VisibleFields(realDefinition)) THEN Returned(st, fields)
    ELSE LET field == VisibleFields(realDefinition)[i]
             g     == GetGqlTag(field)
         IN  IF ~g.ok THEN Failed(st, "InvalidTag")
             ELSE IF g.FieldName = <<>>
             THEN ObjectFieldsDashKept(realDefinition, i + 1, fields, st, depth)
             ELSE Then(TypeAsGraphqlField(field.type, st, depth - 1),
                       LAMBDA c :
                           ObjectFieldsDashKept(
                               realDefinition, i + 1,
                               Put(fields, g.FieldName,
                                   NewGraphqlField(
                                       IF g.NonNull THEN NewNonNull(c.type) ELSE c.type,
                                       Nil, "default")),
                               c.st, depth))

RECURSIVE ObjectFields(_, _, _, _, _)
\* The loop over reflect.VisibleFields(realDefinition) from the i-th on.
ObjectFields(realDefinition, i, fields, st, depth) ==
    IF i > Len(VisibleFields(realDefinition)) THEN Returned(st, fields)
    ELSE LET field == VisibleFields(realDefinition)[i]
             g     == GetGqlTag(field)
         IN  IF ~g.ok THEN Failed(st, "InvalidTag")
             ELSE IF g.FieldName = <<>> \/ g.FieldName = <<"-">>
             THEN ObjectFields(realDefinition, i + 1, fields, st, depth)
             ELSE Then(TypeAsGraphqlField(field.type, st, depth - 1),
                       LAMBDA c :
                           ObjectFields(
                               realDefinition, i + 1,
                               Put(fields, g.FieldName,
                                   NewGraphqlField(
                                       IF g.NonNull THEN NewNonNull(c.type) ELSE c.type,
                                       Nil, "default")),
                               c.st, depth))

\* The getter path skips a struct return type without a tagged field, unless
\* the return type or the struct is a custom type.
UntaggedStructReturn(returnType, st) ==
    LET realReturnType == IF Kind(returnType) = "ptr" THEN Elem(returnType) ELSE returnType
    IN  /\ Kind(realReturnType) = "struct"
        /\ returnType \notin DOMAIN st.customTypes
        /\ realReturnType \notin DOMAIN st.customTypes
        /\ ~hasStructValidGqlTag(realReturnType)

\* graphqlField.Args of a resolver: nil without an input.
ResolverArgs(resolveInfo, st, depth) ==
    IF resolveInfo.Input = Nil THEN Returned(st, Nil)
    ELSE populateGraphqlFieldArgs(resolveInfo.Input.Type, st, depth - 1)

RECURSIVE MethodFields(_, _, _, _, _)
\* The loop over definition.Method(i) from the i-th method on.
MethodFields(definition, i, fields, st, depth) ==
    IF i > Len(Methods(definition)) THEN Returned(st, fields)
    ELSE LET method     == Methods(definition)[i]
             func       == [in |-> <<definition>> \o method.in, out |-> method.out]
             fieldName  == LowerFirst(method.name)
             returnType == func.out[1]
         IN  Let(NewMethodResolveInfo(func),
                 LAMBDA resolveInfo :
                     IF resolveInfo.err = ""
                     THEN Then(TypeAsGraphqlField(resolveInfo.Output.Type, st, depth - 1),
                               LAMBDA o :
                                   Then(ResolverArgs(resolveInfo, o.st, depth),
                                        LAMBDA a :
                                            MethodFields(
                                                definition, i + 1,
                                                Put(fields, fieldName,
                                                    NewGraphqlField(o.type, a.type,
                                                                    "resolver")),
                                                a.st, depth)))
                     ELSE IF Len(func.in) # 1 \/ Len(func.out) # 1
                     THEN MethodFields(definition, i + 1, fields,
                                       Raise(st, resolveInfo.err, method.name), depth)
                     ELSE IF \/ returnType = ErrorType
                             \/ Kind(returnType) = "interface"
                             \/ UntaggedStructReturn(returnType, st)
                             \/ fieldName \in skipMethods
                     THEN MethodFields(definition, i + 1, fields,
                                       Raise(st, resolveInfo.err, method.name), depth)
                     ELSE Let(TypeAsGraphqlField(returnType,
                                                 Raise(st, resolveInfo.err, method.name),
                                                 depth - 1),
                              LAMBDA g :
                                  IF g.crash THEN g
                                  ELSE IF g.err # ""
                                  THEN MethodFields(definition, i + 1, fields, g.st, depth)
                                  ELSE MethodFields(
                                           definition, i + 1,
                                           Put(fields, fieldName,
                                               NewGraphqlField(g.type, Nil, "getter")),
                                           g.st, depth)))

\* The placeholder of a type met inside its own expansion.
Placeholder(realDefinition, st) ==
    Let(NewObject(st, Decl(realDefinition).name, TRUE, realDefinition, NoEntries),
        LAMBDA o :
            Returned([o.st EXCEPT !.typeRegistry = Put(@, realDefinition, o.node)],
                     o.node))

\* The end of an expansion making the object whether or not a placeholder
\* was registered for the type.
RegisterReplacing(realDefinition, fields, st) ==
    Let([st EXCEPT !.fieldsCache = Put(@, realDefinition, fields)],
        LAMBDA cached :
            Let(NewObject(cached, OwnTypeName(realDefinition), FALSE,
                          realDefinition, fields),
                LAMBDA o :
                    Returned([o.st EXCEPT !.typeRegistry =
                                  Put(@, realDefinition, o.node)],
                             o.node)))

\* The end of an expansion: the fields go to the cache, and the type gets an
\* object of its own unless a placeholder was registered for it.
Register(realDefinition, fields, st) ==
    Let([st EXCEPT !.fieldsCache = Put(@, realDefinition, fields)],
        LAMBDA cached :
            IF realDefinition \in DOMAIN cached.typeRegistry
            THEN Returned(cached, cached.typeRegistry[realDefinition])
            ELSE Let(NewObject(cached, OwnTypeName(realDefinition), FALSE,
                               realDefinition, fields),
                     LAMBDA o :
                         Returned([o.st EXCEPT !.typeRegistry =
                                       Put(@, realDefinition, o.node)],
                                  o.node)))

\* The expansion of a struct type that is neither registered nor being
\* processed.
Expand(definition, realDefinition, st, depth) ==
    Left(Deferred(
        Then(ObjectFields(realDefinition, 1, NoEntries,
                          Entered([st EXCEPT !.processing = @ \cup {realDefinition},
                                             !.processed  = @ \cup {realDefinition}],
                                  realDefinition), depth),
             LAMBDA f :
                 Then(MethodFields(definition, 1, f.type, f.st, depth),
                      LAMBDA m : Register(realDefinition, m.type, m.st))),
        realDefinition))

\* The case reflect.Struct, reflect.Ptr without the lookup of the pointer's
\* target among the custom types.
ObjectOfTargetExpanded(definition, st, depth) ==
    LET isPtr          == Kind(definition) = "ptr"
        realDefinition == IF isPtr THEN Elem(definition) ELSE definition
    IN  IF isPtr /\ Kind(realDefinition) # "struct"
        THEN TypeAsGraphqlField(realDefinition, st, depth - 1)
        ELSE IF realDefinition \in DOMAIN st.typeRegistry
        THEN Returned(st, st.typeRegistry[realDefinition])
        ELSE IF realDefinition \in st.processing
        THEN Placeholder(realDefinition, st)
        ELSE Expand(definition, realDefinition, st, depth)

\* The case reflect.Struct, reflect.Ptr.
ObjectOf(definition, st, depth) ==
    LET isPtr          == Kind(definition) = "ptr"
        realDefinition == IF isPtr THEN Elem(definition) ELSE definition
    IN  IF isPtr /\ realDefinition \in DOMAIN st.customTypes
        THEN Returned(st, st.customTypes[realDefinition])
        ELSE IF isPtr /\ Kind(realDefinition) # "struct"
        THEN TypeAsGraphqlField(realDefinition, st, depth - 1)
        ELSE IF realDefinition \in DOMAIN st.typeRegistry
        THEN Returned(st, st.typeRegistry[realDefinition])
        ELSE IF realDefinition \in st.processing
        THEN Placeholder(realDefinition, st)
        ELSE Expand(definition, realDefinition, st, depth)

TypeAsGraphqlField(definition, st, depth) ==
    IF depth = 0 THEN StackOverflow(st)
    ELSE IF definition \in DOMAIN st.customTypes
    THEN Returned(st, st.customTypes[definition])
    ELSE IF Kind(definition) = "int" THEN Returned(st, Scalar("Int"))
    ELSE IF Kind(definition) = "string" THEN Returned(st, Scalar("String"))
    ELSE IF Kind(definition) = "bool" THEN Returned(st, Scalar("Boolean"))
    ELSE IF Kind(definition) = "float" THEN Returned(st, Scalar("Float"))
    ELSE IF Kind(definition) = "slice"
    THEN Then(TypeAsGraphqlField(Elem(definition), st, depth - 1),
              LAMBDA e : Returned(e.st, NewList(e.type)))
    ELSE IF Kind(definition) = "map" THEN Failed(st, "MapNotSupported")
    ELSE IF Kind(definition) \in {"struct", "ptr"} THEN ObjectOf(definition, st, depth)
    ELSE Failed(st, UnsupportedType(Kind(definition)))

BuilderIdle ==
    /\ b = NewSchemaBuilder
    /\ log = <<>>

\* No invocation of Resolve.
ResolveIdle == resolves = <<>>

(***************************************************************************)
(* The classifier applied to one callable.  SpecClassify draws the         *)
(* callable from every signature within the classifier's own limits on the *)
(* number of parameters and returns; SpecArity draws it from signatures    *)
(* that go beyond these limits.                                            *)
(***************************************************************************)
ParamTypes ==
    {ContextType, InfoType, Ptr(InfoType), Tagged, Ptr(Tagged), NoTagged, StringType}

ReturnTypes == {StringType, ErrorType, Ptr(ErrorType), Tagged, NoTagged, Ptr(NoTagged)}

Callables ==
    {[in |-> i, out |-> o] :
        i \in SeqsUpTo(ParamTypes, MaxArgsBound), o \in SeqsUpTo(ReturnTypes, MaxReturns)}

ArityParamTypes == {ContextType, Tagged, StringType}

ArityReturnTypes == {StringType, ErrorType}

ArityCallables ==
    {[in |-> i, out |-> o] :
        i \in SeqsUpTo(ArityParamTypes, MaxArityIn),
        o \in SeqsUpTo(ArityReturnTypes, MaxArityOut)}

NoCallable == [in |-> <<>>, out |-> <<>>]

ClassifyIdle ==
    /\ fn = NoCallable
    /\ isBound = FALSE
    /\ rinfo = Unclassified

TagIdle ==
    /\ tag = <<>>
    /\ tagRes = Unparsed

ClassifyInit ==
    /\ prog = ClassifierProgram
    /\ fn \in Callables
    /\ isBound \in BOOLEAN
    /\ rinfo = Unclassified
    /\ TagIdle
    /\ BuilderIdle
    /\ ResolveIdle

ArityInit ==
    /\ prog = ClassifierProgram
    /\ fn \in ArityCallables
    /\ isBound \in BOOLEAN
    /\ rinfo = Unclassified
    /\ TagIdle
    /\ BuilderIdle
    /\ ResolveIdle

Classify ==
    /\ rinfo = Unclassified
    /\ rinfo' = NewResolveInfo(fn, isBound)
    /\ UNCHANGED <<prog, fn, isBound>>
    /\ UNCHANGED <<tagVars, builderVars>>
    /\ UNCHANGED resolves

ClassifyNext == Classify

SpecClassify == ClassifyInit /\ [][ClassifyNext]_vars

SpecArity == ArityInit /\ [][ClassifyNext]_vars

(***************************************************************************)
(* Claims about the classifier, checked under SpecClassify and SpecArity.  *)
(* The predicates below describe a signature from its types alone.         *)
(***************************************************************************)
Classified == rinfo # Unclassified

Accepted == Classified /\ rinfo.err = ""

WasRejected == Classified /\ rinfo.err # ""

\* A type with one level of pointer or slice wrapping removed.
Deref1(t) == IF Len(t) > 1 THEN Tail(t) ELSE t

IsMarkerParam(t) == Deref1(t) \in {ContextType, InfoType}

IsErrorReturn(t) == Deref1(t) = ErrorType

\* The parameters of the callable without the bound receiver.
Params(f, bound) == IF bound /\ Len(f.in) > 0 THEN Tail(f.in) ELSE f.in

NonMarkerParams(f, bound) ==
    {i \in 1..Len(Params(f, bound)) : ~IsMarkerParam(Params(f, bound)[i])}

NonErrorReturns(f) == {j \in 1..Len(f.out) : ~IsErrorReturn(f.out[j])}

IsStruct(t) == Len(t) = 1 /\ t[1] \in DOMAIN prog

\* A struct type with at least one field that carries a gql tag.
AnnotatedStruct(t) ==
    IsStruct(t) /\ \E i \in 1..Len(prog[t[1]].fields) : prog[t[1]].fields[i].tag # <<>>

\* A struct type none of whose fields carries a gql tag.
UnannotatedStruct(t) == IsStruct(t) /\ ~AnnotatedStruct(t)

\* The receiver of a bound callable is a struct or a pointer to one.
ReceiverWellFormed(f, bound) == bound => Len(f.in) > 0 /\ IsStruct(Deref1(f.in[1]))

\* The receiver and the parameters are what the classifier accepts.
InputsWellFormed(f, bound) ==
    /\ ReceiverWellFormed(f, bound)
    /\ Len(f.in) <= (IF bound THEN 4 ELSE 3)
    /\ Cardinality(NonMarkerParams(f, bound)) <= 1
    /\ \A i \in NonMarkerParams(f, bound) :
          /\ Params(f, bound)[i][1] # "slice"
          /\ AnnotatedStruct(Deref1(Params(f, bound)[i]))

\* The returns are what the classifier accepts, the demand for an output aside.
OutputsWellFormed(f) ==
    /\ Len(f.out) <= 2
    /\ Cardinality(NonErrorReturns(f)) <= 1
    /\ \A j \in NonErrorReturns(f) : ~UnannotatedStruct(Deref1(f.out[j]))

\* The slot of a classification without its position, and the slot a
\* parameter or return of type t is expected to give.
Shape(a) ==
    IF a = Nil THEN Nil
    ELSE [Type |-> a.Type, RealType |-> a.RealType, IsPtr |-> a.IsPtr, IsSlice |-> a.IsSlice]

ExpectedShape(t) ==
    [Type |-> t, RealType |-> Deref1(t), IsPtr |-> t[1] = "ptr", IsSlice |-> t[1] = "slice"]

\* The three parameters ps are the context marker c, the query-metadata marker
\* n and one annotated input struct x (by value or by pointer), in some order.
IsOrderingOf(ps, c, n, x) ==
    /\ Len(ps) = 3
    /\ \E i, j, k \in 1..3 : {i, j, k} = {1, 2, 3} /\ ps[i] = c /\ ps[j] = n /\ ps[k] = x

\* C3: for each of the six orderings of the parameters {context marker,
\* query-metadata marker, one annotated input struct} NewResolveInfo gives
\* the same result: it succeeds exactly when the receiver and the returns
\* are well-formed, whatever the ordering, and then the context, metadata
\* and input roles are each filled with the declared type, dereferenced type
\* and pointer/collection flags of the parameter of that kind.
C3_ParameterOrderIrrelevant ==
    \A c \in {ContextType}, n \in {InfoType, Ptr(InfoType)}, x \in {Tagged, Ptr(Tagged)} :
        (Classified /\ IsOrderingOf(Params(fn, isBound), c, n, x)) =>
            /\ rinfo.err = "" <=>
                  /\ ReceiverWellFormed(fn, isBound)
                  /\ OutputsWellFormed(fn)
                  /\ isBound \/ NonErrorReturns(fn) # {}
            /\ rinfo.err = "" =>
                  /\ Shape(rinfo.Context) = ExpectedShape(c)
                  /\ Shape(rinfo.Info) = ExpectedShape(n)
                  /\ Shape(rinfo.Input) = ExpectedShape(x)

\* A bound method with the parameters (metadata, input, context), the order of
\* WithContextAndResolveInfoAndTaggedNonNullInputSwapped1, has been accepted.
C3_Witness ==
    /\ Accepted
    /\ isBound
    /\ fn = [in |-> <<Ptr(Tagged), InfoType, Tagged, ContextType>>,
             out |-> <<StringType, ErrorType>>]
    /\ rinfo.Input.Index = 2
    /\ rinfo.Context.Index = 3

\* C4: NewResolveInfo rejects every callable that has two parameters (a bound
\* receiver not counted) neither of which dereferences to the context marker
\* or the query-metadata marker type, wherever they stand.
C4_TwoInputsRejected ==
    (Classified /\ Cardinality(NonMarkerParams(fn, isBound)) >= 2) => rinfo.err # ""

\* A bound method (input, context, input) was rejected for its second input.
C4_Witness ==
    /\ Classified
    /\ isBound
    /\ fn.in = <<Tagged, Tagged, ContextType, Ptr(Tagged)>>
    /\ fn.out = <<StringType, ErrorType>>
    /\ rinfo.err = "AmbiguousInput"

C6_UnannotatedStructRejected ==
    Classified =>
        /\ (\E i \in NonMarkerParams(fn, isBound) :
                UnannotatedStruct(Deref1(Params(fn, isBound)[i]))) => rinfo.err # ""
        /\ (\E j \in NonErrorReturns(fn) :
                UnannotatedStruct(Deref1(fn.out[j]))) => rinfo.err # ""
        /\ (\A j \in NonErrorReturns(fn) : ~IsStruct(Deref1(fn.out[j])))
              => rinfo.err # "OutputNoTag"

\* An unbound function from an annotated input to (*NoTagged, error) was
\* rejected for the output's missing tags.
C6_Witness ==
    /\ Classified
    /\ ~isBound
    /\ fn.in = <<Tagged>>
    /\ fn.out = <<Ptr(NoTagged), ErrorType>>
    /\ rinfo.err = "OutputNoTag"

C8_ArityLimits ==
    Classified =>
        /\ (~isBound /\ Len(fn.in) > 3) => rinfo.err # ""
        /\ (isBound /\ Len(fn.in) > 4) => rinfo.err # ""
        /\ Len(fn.out) > 2 => rinfo.err # ""

\* An unbound function of four parameters, otherwise well-formed, was rejected.
C8_Witness ==
    /\ Classified
    /\ ~isBound
    /\ fn.in = <<Tagged, ContextType, ContextType, ContextType>>
    /\ fn.out = <<StringType, ErrorType>>
    /\ rinfo.err = "TooManyArguments"

(***************************************************************************)
(* The tag parser applied to one tag string.                               *)
(***************************************************************************)
TagInit ==
    /\ tag \in TagStrings
    /\ tagRes = Unparsed
    /\ prog = ClassifierProgram
    /\ ClassifyIdle
    /\ BuilderIdle
    /\ ResolveIdle

Parse ==
    /\ tagRes = Unparsed
    /\ tagRes' = ParseGqlTag(tag)
    /\ UNCHANGED tag
    /\ UNCHANGED <<prog, classifyVars, builderVars>>
    /\ UNCHANGED resolves

TagNext == Parse

SpecTag == TagInit /\ [][TagNext]_vars

(***************************************************************************)
(* Claims about the tag parser, checked under SpecTag.                     *)
(***************************************************************************)
Parsed == tagRes # Unparsed

CommaPositions(t) == {i \in 1..Len(t) : t[i] = Comma}

NumCommas(t) == Cardinality(CommaPositions(t))

\* The text after the first separator of a string that has one.
AfterFirstComma(t) ==
    LET i == CHOOSE j \in CommaPositions(t) : \A k \in CommaPositions(t) : j <= k
    IN  SubSeq(t, i + 1, Len(t))

BeforeFirstComma(t) ==
    LET i == CHOOSE j \in CommaPositions(t) : \A k \in CommaPositions(t) : j <= k
    IN  SubSeq(t, 1, i - 1)

\* The form name[,nonNull] of a parsed tag.
Serialize(g) ==
    IF g.NonNull THEN g.FieldName \o <<Comma>> \o NonNullLiteral ELSE g.FieldName

\* C9: ParseGqlTag fails exactly when the tag string holds more than one
\* comma, or holds one comma and the text after it is not exactly the literal
\* nonNull (an empty second segment included); it succeeds on every other
\* string, the empty string included.
C9_FailsExactlyOnBadFlagOrCommas ==
    Parsed =>
        (~tagRes.ok <=>
            \/ NumCommas(tag) > 1
            \/ NumCommas(tag) = 1 /\ AfterFirstComma(tag) # NonNullLiteral)

\* "a," (an empty second segment) has been parsed and was rejected.
C9_Witness ==
    /\ Parsed
    /\ tag = <<"a", Comma>>
    /\ ~tagRes.ok

I1 == <<"I1">>

I2 == <<"I2">>

\* A field name that holds the separators of the hashed text.
ColonName == <<"a", ":", "int", ";", "b">>

\* The (tag, type) of a plainly annotated field.
PlainFieldChoices ==
    {<<<<"a">>, StringType>>, <<<<"a">>, IntType>>, <<<<"b">>, IntType>>}

\* The (tag, type) of a field: plainly annotated, unannotated, required, with
\* a flag that ParseGqlTag rejects, and with separators in the name.
InputFieldChoices ==
    PlainFieldChoices \cup
    {<<<<>>, StringType>>, <<<<"a", Comma, "nonNull">>, StringType>>,
     <<<<"a", Comma, "a">>, StringType>>, <<ColonName, IntType>>}

GoFieldNames == <<"F1", "F2", "F3", "F4">>

FieldsOf(choices) ==
    [i \in 1..Len(choices) |-> Field(GoFieldNames[i], choices[i][1], choices[i][2])]

PlainLayouts == {FieldsOf(c) : c \in SeqsUpTo(PlainFieldChoices, MaxInputFields)}

InputLayouts == {FieldsOf(c) : c \in SeqsUpTo(InputFieldChoices, MaxInputFields)}

\* (name, GraphQLTypeName) of I2.
SecondNames == {<<"X", "">>, <<"Y", "">>, <<"X", "N">>}

InputPrograms ==
    {[I1 |-> Struct("p", "X", l1),
      I2 |-> [Struct("p", n[1], l2) EXCEPT !.override = n[2]]] :
        l1 \in PlainLayouts, l2 \in InputLayouts, n \in SecondNames}

ArgRoots == {I1, SliceOf(Ptr(I2))}

\* A call stack that outgrew its limit ends the process.
Alive == \A i \in 1..Len(log) : ~log[i].crash

ArgsInit ==
    /\ prog \in InputPrograms
    /\ b = NewSchemaBuilder
    /\ log = <<>>
    /\ TagIdle
    /\ ClassifyIdle
    /\ ResolveIdle

ArgumentConfig ==
    /\ Alive
    /\ Len(log) < MaxCalls
    /\ \E t \in ArgRoots :
           \E r \in {TypeAsGraphqlArgumentConfig(t, b, MaxDepth)} :
               /\ b' = r.st
               /\ log' = Append(log, [op     |-> "TypeAsGraphqlArgumentConfig",
                                      arg    |-> t,
                                      shared |-> b.allowSharedTypes,
                                      type   |-> r.type,
                                      err    |-> r.err,
                                      crash  |-> r.crash])
    /\ UNCHANGED <<prog, tagVars, classifyVars>>
    /\ UNCHANGED resolves

AllowSharedTypes ==
    /\ Alive
    /\ \E allow \in BOOLEAN : b' = [b EXCEPT !.allowSharedTypes = allow]
    /\ UNCHANGED <<log, prog, tagVars, classifyVars>>
    /\ UNCHANGED resolves

ArgsNext == ArgumentConfig \/ AllowSharedTypes

SpecArgs == ArgsInit /\ [][ArgsNext]_vars

(***************************************************************************)
(* Claims about the input mapper, checked under SpecArgs.                  *)
(***************************************************************************)
\* The ordered (exposedName, fieldType) pairs of the annotated fields.
RECURSIVE LayoutFrom(_, _)
LayoutFrom(fields, i) ==
    IF i > Len(fields) THEN <<>>
    ELSE LET g == ParseGqlTag(fields[i].tag)
         IN  IF g.ok /\ g.FieldName # <<>> /\ g.FieldName # <<"-">>
             THEN <<<<g.FieldName, fields[i].type>>>> \o LayoutFrom(fields, i + 1)
             ELSE LayoutFrom(fields, i + 1)

AnnotatedLayout(t) == LayoutFrom(prog[BaseName(t)].fields, 1)

\* The input object that a node wraps.
RECURSIVE InputObjectIn(_)
InputObjectIn(node) ==
    IF node.kind \in {"List", "NonNull"} THEN InputObjectIn(node.of) ELSE node

\* The i-th call mapped a struct as an input type with shared types enabled.
MappedShared(i) ==
    /\ log[i].op = "TypeAsGraphqlArgumentConfig"
    /\ log[i].shared
    /\ log[i].err = "" /\ ~log[i].crash

InputStruct(i) == <<BaseName(log[i].arg)>>

InputName(i) == InputObjectIn(log[i].type).name

\* C1: two struct types with the same ordered (exposedName, fieldType) pairs
\* of annotated fields, both mapped as input types by one builder with
\* shared types enabled, resolve to one input type name; two struct types
\* whose annotated layouts differ never share a hash, so deduplication never
\* gives them one canonical name.
C1_IdenticalLayoutsShareOneName ==
    \A i, j \in 1..Len(log) :
        (MappedShared(i) /\ MappedShared(j) /\ InputStruct(i) # InputStruct(j)) =>
            /\ AnnotatedLayout(InputStruct(i)) = AnnotatedLayout(InputStruct(j))
                   => InputName(i) = InputName(j)
            /\ AnnotatedLayout(InputStruct(i)) # AnnotatedLayout(InputStruct(j))
                   => b.structHashCache[InputStruct(i)] # b.structHashCache[InputStruct(j)]

(***************************************************************************)
(* The output mapper on a builder.  The program declares the struct types  *)
(* A and B, whose fields may refer to A and to B, and In, the argument of  *)
(* A's method Find; A may have the resolver method Find and the getter     *)
(* method Parent.  Up to MaxCalls calls of TypeAsGraphqlField are made on  *)
(* one builder.                                                            *)
(***************************************************************************)
StructA == <<"A">>

StructB == <<"B">>

StructIn == <<"In">>

AFieldChoices ==
    {<<<<"a">>, StringType>>, <<<<"s">>, Ptr(StructA)>>,
     <<<<"s", Comma, "nonNull">>, Ptr(StructA)>>,
     <<<<"b">>, Ptr(StructB)>>, <<<<"b">>, SliceOf(StructB)>>}

BFieldChoices ==
    {<<<<"a">>, StringType>>, <<<<"p">>, Ptr(StructA)>>, <<<<"v">>, StructA>>}

InFieldChoices ==
    {<<<<"a">>, StringType>>, <<<<"n">>, Ptr(StructIn)>>, <<<<"v">>, StructA>>}

\* func (a *A) Find(ctx context.Context, in In) (*A, error)
Find == Method(<<"F", "ind">>, TRUE, <<ContextType, StructIn>>, <<Ptr(StructA), ErrorType>>)

\* func (a *A) Parent() *A
Parent == Method(<<"P", "arent">>, TRUE, <<>>, <<Ptr(StructA)>>)

\* The methods that A may declare, in the order of reflect: by name.
MethodSets == {<<>>, <<Find>>, <<Parent>>, <<Find, Parent>>}

OutputPrograms ==
    {[A  |-> [Struct("p", "A", FieldsOf(fa)) EXCEPT !.methods = ms],
      B  |-> Struct("p", "B", FieldsOf(fb)),
      In |-> Struct("p", "In", FieldsOf(<<fi>>))] :
        fa \in SeqsUpTo(AFieldChoices, MaxFields),
        fb \in SeqsUpTo(BFieldChoices, MaxFields),
        fi \in InFieldChoices, ms \in MethodSets}

FieldRoots == {StructA, Ptr(StructA), SliceOf(StructB)}

FieldsInit ==
    /\ prog \in OutputPrograms
    /\ b = NewSchemaBuilder
    /\ log = <<>>
    /\ TagIdle
    /\ ClassifyIdle
    /\ ResolveIdle

GraphqlField ==
    /\ Alive
    /\ Len(log) < MaxCalls
    /\ \E t \in FieldRoots :
           \E r \in {TypeAsGraphqlField(t, b, MaxDepth)} :
               /\ b' = r.st
               /\ log' = Append(log, [op     |-> "TypeAsGraphqlField",
                                      arg    |-> t,
                                      shared |-> b.allowSharedTypes,
                                      type   |-> r.type,
                                      err    |-> r.err,
                                      crash  |-> r.crash])
    /\ UNCHANGED <<prog, tagVars, classifyVars>>
    /\ UNCHANGED resolves

FieldsNext == GraphqlField

SpecFields == FieldsInit /\ [][FieldsNext]_vars

(***************************************************************************)
(* Claims about the output mapper, checked under SpecFields.               *)
(***************************************************************************)
\* The struct types that the fields of the struct type named s refer to.
FieldRefs(s) ==
    {BaseName(prog[s].fields[i].type) : i \in 1..Len(prog[s].fields)} \cap DOMAIN prog

\* The struct types reached from those of S through one or more fields.
RECURSIVE ReachedFrom(_, _)
ReachedFrom(S, seen) ==
    LET next == UNION {FieldRefs(s) : s \in S}
    IN  IF next \subseteq seen THEN seen ELSE ReachedFrom(next \ seen, seen \cup next)

\* The graph of struct types under t holds a reference cycle of fields.
Cyclic(t) ==
    \E s \in {BaseName(t)} \cup ReachedFrom({BaseName(t)}, {}) :
        s \in ReachedFrom({s}, {})

\* The objects that a node refers to.
RECURSIVE ObjectsIn(_)
ObjectsIn(node) ==
    IF node.kind \in {"List", "NonNull"} THEN ObjectsIn(node.of)
    ELSE IF node.kind = "Object" THEN {node.id}
    ELSE {}

\* The fields of an object when the schema is finished: a placeholder's
\* thunk reads the fields cache.
FinishedFields(id) ==
    LET o == b.objects[id]
    IN  IF ~o.lazy THEN o.fields
        ELSE IF o.of \in DOMAIN b.fieldsCache THEN b.fieldsCache[o.of]
        ELSE NoEntries

\* The objects that the fields of an object refer to.
FieldObjects(id) ==
    UNION {ObjectsIn(FinishedFields(id)[k].Type) : k \in DOMAIN FinishedFields(id)}

RECURSIVE GraphFrom(_)
GraphFrom(ids) ==
    LET next == ids \cup UNION {FieldObjects(id) : id \in ids}
    IN  IF next = ids THEN ids ELSE GraphFrom(next)

\* C2: on a graph of struct types with a reference cycle TypeAsGraphqlField
\* returns without an error and without exhausting the stack, and every
\* object of the finished graph is the node that the type registry holds
\* for the struct type it was made for.
C2_CyclicGraphsBuild ==
    \A i \in 1..Len(log) :
        (log[i].op = "TypeAsGraphqlField" /\ Cyclic(log[i].arg)) =>
            /\ ~log[i].crash
            /\ log[i].err = ""
            /\ i = Len(log) =>
                   \A id \in GraphFrom(ObjectsIn(log[i].type)) :
                       /\ b.objects[id].of \in DOMAIN b.typeRegistry
                       /\ b.typeRegistry[b.objects[id].of] = ObjectNode(id)

(***************************************************************************)
(* arginfo.go, resolveinfo.go: Resolve.                                    *)
(*                                                                         *)
(* A Go value that Resolve is handed (an interface{}) is its dynamic type, *)
(* an identity, whether it is a nil pointer, whether (a map) it decodes    *)
(* into a struct and (a slice) its elements; MapType is here the type      *)
(* map[string]interface{}.  A reflect.Value is the type of what it holds,  *)
(* the identity of the Go value it was made from and how it was made; the  *)
(* zero Value holds nothing.                                               *)
(***************************************************************************)
CtxImpl == Ptr(<<"valueCtx">>)        \* *context.valueCtx, a context.Context

ErrImpl == Ptr(<<"errorString">>)     \* *errors.errorString, an error

GoValue(type, id) ==
    [type |-> type, id |-> id, isNil |-> FALSE, decodes |-> TRUE, elems |-> <<>>]

\* The nil interface{}.
NilInterface == [GoValue(<<"nil">>, <<"nil", 0>>) EXCEPT !.isNil = TRUE]

ReflectValue(type, id, isNil, how) ==
    [valid |-> TRUE, type |-> type, id |-> id, isNil |-> isNil, how |-> how]

\* reflect.Value{}
ZeroValue == [valid |-> FALSE, type |-> <<>>, id |-> <<"zero", 0>>, isNil |-> TRUE, how |-> ""]

\* reflect.ValueOf
ValueOf(value) ==
    IF value = NilInterface THEN ZeroValue
    ELSE ReflectValue(value.type, value.id, value.isNil, "same")

\* reflect.Type.Implements for the interface types of the model.
Implements(t, iface) ==
    \/ iface = ContextType /\ t = CtxImpl
    \/ iface = ErrorType /\ t = ErrImpl
    \/ iface = <<"interface">>

\* reflect.Type.AssignableTo
AssignableTo(t, target) ==
    \/ t = target
    \/ Kind(target) = "interface" /\ Implements(t, target)

\* What ValueFrom hands back: a Value, an error, or a panic.
Coerced(val) == [val |-> val, err |-> "", panic |-> FALSE]

CoerceError(why) == [val |-> ZeroValue, err |-> why, panic |-> FALSE]

CoercePanic == [val |-> ZeroValue, err |-> "", panic |-> TRUE]

\* mapstructure.Decode into a new a.RealType.
ValueFromMap(a, m) ==
    IF ~m.decodes THEN CoerceError("Decode")
    ELSE IF a.IsPtr THEN Coerced(ReflectValue(Ptr(a.RealType), m.id, FALSE, "decoded"))
    ELSE Coerced(ReflectValue(a.RealType, m.id, FALSE, "decoded"))

RECURSIVE ValueFrom(_, _)
RECURSIVE SliceElems(_, _, _)
\* The loop of ValueFromSlice from the i-th element on: each element goes
\* through ValueFrom, and Elem() of the result is set into the new slice.
SliceElems(a, value, i) ==
    IF i > Len(value.elems)
    THEN Coerced(ReflectValue(a.Type, value.id, FALSE, "slice"))
    ELSE Let(ValueFrom(a, value.elems[i]),
             LAMBDA e :
                 IF e.panic \/ e.err # "" THEN e
                 ELSE IF ~e.val.valid \/ Kind(e.val.type) \notin {"ptr", "interface"}
                 THEN CoercePanic                  \* Value.Elem of another kind
                 ELSE IF e.val.isNil THEN CoercePanic      \* Set of the zero Value
                 ELSE IF ~AssignableTo(Elem(e.val.type), Elem(a.Type)) THEN CoercePanic
                 ELSE SliceElems(a, value, i + 1))

\* reflect.MakeSlice panics on a type that is no slice.
ValueFromSlice(a, value) ==
    IF Kind(a.Type) # "slice" THEN CoercePanic
    ELSE SliceElems(a, value, 1)

\* reflect.TypeOf(nil) is nil, and Kind() on it a nil dereference.
ValueFrom(a, value) ==
    IF value = NilInterface THEN CoercePanic
    ELSE IF Kind(value.type) = "ptr"
    THEN IF a.IsPtr THEN Coerced(ValueOf(value))
         ELSE IF value.isNil THEN Coerced(ZeroValue)
         ELSE Coerced(ReflectValue(Elem(value.type), value.id, FALSE, "elem"))
    ELSE IF Kind(value.type) = "map" THEN ValueFromMap(a, value)
    ELSE IF Kind(value.type) = "slice" THEN ValueFromSlice(a, value)
    ELSE IF a.IsPtr
    THEN IF AssignableTo(value.type, a.RealType)
         THEN Coerced(ReflectValue(Ptr(a.RealType), value.id, FALSE, "copy"))
         ELSE CoercePanic                          \* Value.Set of another type
    ELSE Coerced(ValueOf(value))

(***************************************************************************)
(* Resolve, statement by statement.  An invocation is its ResolveParams p  *)
(* and its locals: the position pc, the array args, the values that the    *)
(* callable returned and what Resolve returned (output, err) unless it     *)
(* panicked; received holds the arguments that the callable was called     *)
(* with.  rs maps each invocation to these.                                *)
(***************************************************************************)
ResolveParams(source, args, context, info) ==
    [Source |-> source, Args |-> args, Context |-> context, Info |-> info]

\* A nil error; an error is otherwise the identity of its value.
NoError == <<"", 0>>

Invocation(p) ==
    [pc |-> "make", p |-> p, args |-> <<>>, values |-> <<>>, received |-> <<>>,
     called |-> FALSE, output |-> Nil, err |-> NoError, panic |-> FALSE]

\* args[index] = v, on a write to the array of invocation 1 whoever writes.
StoreArgShared(rs, i, index, v) == [rs EXCEPT ![1].args[index + 1] = v]

\* args[index] = v
StoreArg(rs, i, index, v) == [rs EXCEPT ![i].args[index + 1] = v]

\* args := make([]reflect.Value, r.Func.Type().NumIn())
MakeArgs(rs, i, f) ==
    IF rs[i].pc # "make" THEN rs
    ELSE [rs EXCEPT ![i].args = [k \in 1..Len(f.in) |-> ZeroValue], ![i].pc = "source"]

\* args[a.Index], err = a.ValueFrom(value); if err != nil { return nil, err }
Fill(rs, i, a, value, next) ==
    Let(ValueFrom(a, value),
        LAMBDA c :
            IF c.panic \/ c.err # ""
            THEN [rs EXCEPT ![i].pc = "done", ![i].err = <<c.err, 0>>, ![i].panic = c.panic]
            ELSE Let(StoreArg(rs, i, a.Index, c.val),
                     LAMBDA stored : [stored EXCEPT ![i].pc = next]))

FillSource(rs, i, r) ==
    IF rs[i].pc # "source" THEN rs
    ELSE IF r.IsBound THEN Fill(rs, i, r.Source, rs[i].p.Source, "input")
    ELSE [rs EXCEPT ![i].pc = "input"]

FillInput(rs, i, r) ==
    IF rs[i].pc # "input" THEN rs
    ELSE IF r.Input # Nil THEN Fill(rs, i, r.Input, rs[i].p.Args, "context")
    ELSE [rs EXCEPT ![i].pc = "context"]

FillContext(rs, i, r) ==
    IF rs[i].pc # "context" THEN rs
    ELSE IF r.Context # Nil
    THEN Let(StoreArg(rs, i, r.Context.Index, ValueOf(rs[i].p.Context)),
             LAMBDA stored : [stored EXCEPT ![i].pc = "info"])
    ELSE [rs EXCEPT ![i].pc = "info"]

FillInfo(rs, i, r) ==
    IF rs[i].pc # "info" THEN rs
    ELSE IF r.Info # Nil THEN Fill(rs, i, r.Info, rs[i].p.Info, "call")
    ELSE [rs EXCEPT ![i].pc = "call"]

\* reflect.Value.Call panics on a zero Value and on a Value whose type is
\* not assignable to the parameter's.
CallPanics(f, args) ==
    \E k \in 1..Len(f.in) : ~args[k].valid \/ ~AssignableTo(args[k].type, f.in[k])

\* values := r.Func.Call(args), the callable returning the values returned.
CallFunc(rs, i, f, returned) ==
    IF rs[i].pc # "call" THEN rs
    ELSE IF CallPanics(f, rs[i].args) THEN [rs EXCEPT ![i].pc = "done", ![i].panic = TRUE]
    ELSE [rs EXCEPT ![i].pc = "return", ![i].called = TRUE,
                    ![i].received = rs[i].args, ![i].values = returned]

\* The statements after the call: the output and, when the value in the
\* error slot asserts to a non-nil error, that error instead.
Return(rs, i, r) ==
    IF rs[i].pc # "return" THEN rs
    ELSE LET output == IF r.Output # Nil THEN rs[i].values[r.Output.Index + 1] ELSE Nil
             isErr  == r.Error # Nil /\ Implements(rs[i].values[r.Error.Index + 1].type, ErrorType)
         IN  IF isErr
             THEN [rs EXCEPT ![i].pc = "done",
                             ![i].err = rs[i].values[r.Error.Index + 1].id]
             ELSE [rs EXCEPT ![i].pc = "done", ![i].output = output]

\* ResolveInfo.Resolve from the first statement to the return.
Resolve(rs, i, r, f, returned) ==
    Let(MakeArgs(rs, i, f), LAMBDA s1 :
    Let(FillSource(s1, i, r), LAMBDA s2 :
    Let(FillInput(s2, i, r), LAMBDA s3 :
    Let(FillContext(s3, i, r), LAMBDA s4 :
    Let(FillInfo(s4, i, r), LAMBDA s5 :
    Let(CallFunc(s5, i, f, returned), LAMBDA s6 : Return(s6, i, r)))))))

\* What the callable may return in its k-th return of type t: an error or
\* nil, a pointer or nil, a value.
ReturnValues(t, k) ==
    IF t = ErrorType
    THEN {ReflectValue(ErrorType, <<"ret", k>>, TRUE, "returned"),
          ReflectValue(ErrImpl, <<"ret", k>>, FALSE, "returned")}
    ELSE IF Kind(t) \in {"ptr", "slice"}
    THEN {ReflectValue(t, <<"ret", k>>, n, "returned") : n \in BOOLEAN}
    ELSE {ReflectValue(t, <<"ret", k>>, FALSE, "returned")}

Returns(f) ==
    {s \in [1..Len(f.out) -> UNION {ReturnValues(f.out[k], k) : k \in 1..Len(f.out)}] :
        \A k \in 1..Len(f.out) : s[k] \in ReturnValues(f.out[k], k)}

(***************************************************************************)
(* Resolve on one classified callable.  SpecResolve runs one invocation on *)
(* every accepted callable of up to MaxResolveParams parameters, with      *)
(* sources and arguments of every shape; SpecConcurrent runs               *)
(* MaxInvocations invocations on the same ResolveInfo, their statements    *)
(* interleaved in every order.                                             *)
(***************************************************************************)
ResolveParamTypes ==
    {ContextType, Ptr(ContextType), InfoType, Ptr(InfoType), Tagged, Ptr(Tagged)}

ResolveReturnTypes == {StringType, ErrorType, Ptr(ErrorType)}

Receivers == {Tagged, Ptr(Tagged)}

\* The callables handed to NewResolveInfo: methods when bound.
ResolveCallables(bound) ==
    {[in |-> (IF bound THEN <<recv>> ELSE <<>>) \o i, out |-> o] :
        recv \in Receivers,
        i \in SeqsUpTo(ResolveParamTypes, MaxResolveParams),
        o \in SeqsUpTo(ResolveReturnTypes, MaxReturns)}

ArgsMap == GoValue(MapType, <<"args", 1>>)

BadArgsMap == [GoValue(MapType, <<"args", 2>>) EXCEPT !.decodes = FALSE]

SourcePtr == GoValue(Ptr(Tagged), <<"source", 1>>)

\* p.Source: nil, a *Tagged, a nil *Tagged, a Tagged, a NoTagged, a string,
\* a map that decodes and one that does not, an empty slice and a slice of
\* one pointer.
Sources ==
    {NilInterface,
     SourcePtr,
     [GoValue(Ptr(Tagged), <<"source", 2>>) EXCEPT !.isNil = TRUE],
     GoValue(Tagged, <<"source", 3>>),
     GoValue(NoTagged, <<"source", 4>>),
     GoValue(StringType, <<"source", 5>>),
     GoValue(MapType, <<"source", 6>>),
     [GoValue(MapType, <<"source", 7>>) EXCEPT !.decodes = FALSE],
     GoValue(SliceOf(Tagged), <<"source", 8>>),
     [GoValue(SliceOf(Ptr(Tagged)), <<"source", 9>>) EXCEPT !.elems = <<SourcePtr>>]}

Contexts == {GoValue(CtxImpl, <<"ctx", 1>>), GoValue(CtxImpl, <<"ctx", 2>>)}

\* p.Info is a graphql.ResolveInfo, a struct value.
InfoValue == GoValue(InfoType, <<"info", 1>>)

\* Resolve reads p.Source of a bound callable only: one source stands for all
\* when the callable is unbound.
AllParams(bound) ==
    {ResolveParams(s, a, c, InfoValue) :
        s \in (IF bound THEN Sources ELSE {NilInterface}),
        a \in {ArgsMap, BadArgsMap}, c \in Contexts}

\* func (t *Tagged) M(ctx context.Context, in Tagged) (string, error) and
\* func (t *Tagged) M(in *Tagged, ctx context.Context) error
ConcurrentCallables ==
    {[in |-> <<Ptr(Tagged), ContextType, Tagged>>, out |-> <<StringType, ErrorType>>],
     [in |-> <<Ptr(Tagged), Ptr(Tagged), ContextType>>, out |-> <<ErrorType>>]}

ConcurrentParams ==
    {ResolveParams(s, a, c, InfoValue) :
        s \in {SourcePtr, NilInterface}, a \in {ArgsMap, BadArgsMap}, c \in Contexts}

ResolveInit ==
    /\ prog = ClassifierProgram
    /\ isBound \in BOOLEAN
    /\ fn \in ResolveCallables(isBound)
    /\ rinfo = NewResolveInfo(fn, isBound)
    /\ rinfo.err = ""
    /\ resolves \in [{1} -> {Invocation(p) : p \in AllParams(isBound)}]
    /\ TagIdle
    /\ BuilderIdle

ConcurrentInit ==
    /\ prog = ClassifierProgram
    /\ isBound = TRUE
    /\ fn \in ConcurrentCallables
    /\ rinfo = NewResolveInfo(fn, isBound)
    /\ rinfo.err = ""
    /\ resolves \in [1..MaxInvocations -> {Invocation(p) : p \in ConcurrentParams}]
    /\ TagIdle
    /\ BuilderIdle

ResolveUnchanged == UNCHANGED <<prog, tagVars, classifyVars, builderVars>>

AtMakeArgs(i) ==
    /\ resolves[i].pc = "make"
    /\ resolves' = MakeArgs(resolves, i, fn)
    /\ ResolveUnchanged

AtSource(i) ==
    /\ resolves[i].pc = "source"
    /\ resolves' = FillSource(resolves, i, rinfo)
    /\ ResolveUnchanged

AtInput(i) ==
    /\ resolves[i].pc = "input"
    /\ resolves' = FillInput(resolves, i, rinfo)
    /\ ResolveUnchanged

AtContext(i) ==
    /\ resolves[i].pc = "context"
    /\ resolves' = FillContext(resolves, i, rinfo)
    /\ ResolveUnchanged

AtInfo(i) ==
    /\ resolves[i].pc = "info"
    /\ resolves' = FillInfo(resolves, i, rinfo)
    /\ ResolveUnchanged

AtCall(i) ==
    /\ resolves[i].pc = "call"
    /\ \E returned \in Returns(fn) : resolves' = CallFunc(resolves, i, fn, returned)
    /\ ResolveUnchanged

AtReturn(i) ==
    /\ resolves[i].pc = "return"
    /\ resolves' = Return(resolves, i, rinfo)
    /\ ResolveUnchanged

ResolveNext ==
    \E i \in DOMAIN resolves :
        \/ AtMakeArgs(i)
        \/ AtSource(i)
        \/ AtInput(i)
        \/ AtContext(i)
        \/ AtInfo(i)
        \/ AtCall(i)
        \/ AtReturn(i)

SpecResolve == ResolveInit /\ [][ResolveNext]_vars

SpecConcurrent == ConcurrentInit /\ [][ResolveNext]_vars

(***************************************************************************)
(* Claims about Resolve, checked under SpecResolve and SpecConcurrent.     *)
(***************************************************************************)
Finished(i) == resolves[i].pc = "done"

\* The returns of the callable that the classifier takes for error returns.
ErrorReturns(f) == {k \in 1..Len(f.out) : IsErrorReturn(f.out[k])}

\* C11: whenever the callable has an error return and the value it returns
\* there is non-nil, Resolve returns that error and a nil output, discarding
\* the output the callable returned; when the error return is nil or absent,
\* Resolve returns the callable's output value (nil for a callable with no
\* output slot) and no error.
C11_ErrorReturnWins ==
    \A i \in DOMAIN resolves :
        (Finished(i) /\ resolves[i].called) =>
            LET v      == resolves[i].values
                raised == {k \in ErrorReturns(fn) : ~v[k].isNil}
            IN  IF raised # {}
                THEN /\ \E k \in raised : resolves[i].err = v[k].id
                     /\ resolves[i].output = Nil
                ELSE /\ resolves[i].err = NoError
                     /\ resolves[i].output =
                            (IF rinfo.Output = Nil THEN Nil ELSE v[rinfo.Output.Index + 1])

\* p.Source is a value of the receiver's struct type, a non-nil pointer to
\* one, or a map that decodes; p.Args decodes.
InputsCoerce(i) ==
    /\ isBound =>
          \/ resolves[i].p.Source.type = Ptr(rinfo.Source.RealType)
                /\ ~resolves[i].p.Source.isNil
          \/ resolves[i].p.Source.type = rinfo.Source.RealType
          \/ resolves[i].p.Source.type = MapType /\ resolves[i].p.Source.decodes
    /\ resolves[i].p.Args.decodes

\* The k-th argument of the call is what the declared type of the k-th
\* parameter asks for: the context given, the metadata, the source or the
\* input coerced to the declared type.
ArgumentInPlace(i, k) ==
    LET got == resolves[i].received[k]
    IN  IF isBound /\ k = 1
        THEN got.id = resolves[i].p.Source.id /\ got.type = fn.in[k]
        ELSE IF Deref1(fn.in[k]) = ContextType
        THEN got = ValueOf(resolves[i].p.Context)
        ELSE IF Deref1(fn.in[k]) = InfoType
        THEN got.id = resolves[i].p.Info.id /\ got.type = fn.in[k]
        ELSE got.id = resolves[i].p.Args.id /\ got.type = fn.in[k]

\* C12: for every successfully classified callable, Resolve invokes it with
\* the source at position 0 when bound, the coerced input at the input
\* parameter's declared position, the query metadata at the metadata
\* parameter's position and the context at the context parameter's position,
\* whatever the declared order of the parameters; the context value handed
\* to the callable is the one Resolve was given, unmodified.
C12_ArgumentsInDeclaredPositions ==
    \A i \in DOMAIN resolves :
        (Finished(i) /\ InputsCoerce(i)) =>
            /\ resolves[i].called
            /\ \A k \in 1..Len(fn.in) : ArgumentInPlace(i, k)

\* Coercing value into the slot a fails in one of the ways the claim lists:
\* the value is nil, it is a nil pointer for a slot taken by value, it is a
\* map that does not decode, or what it holds is not of the slot's type.
CoercionFails(a, value) ==
    \/ value = NilInterface
    \/ Kind(value.type) = "ptr" /\ value.isNil /\ ~a.IsPtr
    \/ Kind(value.type) = "map" /\ ~value.decodes
    \/ Kind(value.type) # "map" /\ value.type \notin {a.RealType, Ptr(a.RealType)}

SomeCoercionFails(i) ==
    \/ isBound /\ CoercionFails(rinfo.Source, resolves[i].p.Source)
    \/ rinfo.Input # Nil /\ CoercionFails(rinfo.Input, resolves[i].p.Args)
    \/ rinfo.Info # Nil /\ CoercionFails(rinfo.Info, resolves[i].p.Info)

\* C13: whenever coercing the source, the raw arguments or the query
\* metadata into a slot's declared shape fails in Resolve (a nil source or
\* value, a value of the wrong kind, a map that does not decode into the
\* input struct, a nil pointer for a by-value slot), Resolve returns an
\* error value and does not panic, and the callable is not invoked.
C13_CoercionFailureIsAnError ==
    \A i \in DOMAIN resolves :
        (Finished(i) /\ SomeCoercionFails(i)) =>
            /\ resolves[i].err # NoError
            /\ ~resolves[i].panic
            /\ ~resolves[i].called

\* The parameters, the receiver aside, whose dereferenced type is t.
ParamsOfType(f, bound, t) ==
    {k \in 1..Len(Params(f, bound)) : Deref1(Params(f, bound)[k]) = t}

\* The Go indices of the parameters that the roles of the classification own.
OwnedPositions(r) ==
    {a.Index : a \in {r.Source, r.Context, r.Info, r.Input} \ {Nil}}

\* C18: in every classification that NewResolveInfo accepts, at most one
\* parameter maps to the context role, at most one to the query-metadata role
\* and at most one to the input role, and at most one return value is a
\* non-error output; so every parameter position of the callable is owned by
\* exactly one role, and is filled when Resolve assembles the arguments.
C18_OneParameterPerRole ==
    /\ Cardinality(ParamsOfType(fn, isBound, ContextType)) <= 1
    /\ Cardinality(ParamsOfType(fn, isBound, InfoType)) <= 1
    /\ Cardinality(NonMarkerParams(fn, isBound)) <= 1
    /\ Cardinality(NonErrorReturns(fn)) <= 1
    /\ OwnedPositions(rinfo) = 0..(Len(fn.in) - 1)
    /\ \A i \in DOMAIN resolves :
           (resolves[i].pc = "call" /\ InputsCoerce(i)) =>
               \A k \in 1..Len(fn.in) : resolves[i].args[k].valid

\* What an invocation of Resolve did: what it returned or that it panicked,
\* and what it called the callable with.
Outcome(invocation) ==
    [output   |-> invocation.output,
     err      |-> invocation.err,
     panic    |-> invocation.panic,
     called   |-> invocation.called,
     received |-> invocation.received]

\* The outcome of the i-th invocation had it run alone, the callable
\* returning what it returned to the i-th.
Alone(i) ==
    Outcome(Resolve([k \in {1} |-> Invocation(resolves[i].p)], 1, rinfo, fn,
                    resolves[i].values)[1])

\* A step writes the locals of one invocation and nothing else.
WritesOwnLocalsOnly ==
    /\ \E i \in DOMAIN resolves :
           \A j \in DOMAIN resolves \ {i} : resolves'[j] = resolves[j]
    /\ rinfo' = rinfo
    /\ fn' = fn

EachAsIfAlone == \A i \in DOMAIN resolves : Finished(i) => Outcome(resolves[i]) = Alone(i)

\* C17: concurrent invocations of Resolve on the same ResolveInfo, in any
\* interleaving, write no state shared between invocations: each writes only
\* its own argument array and reads the classification, so each invocation's
\* result equals the result it would produce when run alone.
C17_ConcurrentResolvesIndependent == []EachAsIfAlone /\ [][WritesOwnLocalsOnly]_vars

\* Two invocations with different contexts and arguments are under way at
\* once, the first about to call with its own context stored and the second
\* having stored its source only.
C17_Witness ==
    /\ DOMAIN resolves = 1..2
    /\ resolves[1].p.Context # resolves[2].p.Context
    /\ resolves[1].pc = "call"
    /\ resolves[2].pc = "input"
    /\ \E k \in 1..Len(fn.in) : resolves[1].args[k] = ValueOf(resolves[1].p.Context)
    /\ resolves[2].args[1].valid

(***************************************************************************)
(* Claims about the type registry, checked under SpecFields.               *)
(***************************************************************************)
\* A step keeps every entry of the type registry as it is.
RegistryKeepsEntries ==
    \A t \in DOMAIN b.typeRegistry :
        t \in DOMAIN b'.typeRegistry /\ b'.typeRegistry[t] = b.typeRegistry[t]

\* No two objects were made for one struct type.
OneObjectPerStruct ==
    \A i, j \in 1..Len(b.objects) : b.objects[i].of = b.objects[j].of => i = j

\* Every object made is the node that the registry holds for its type.
ObjectsAreRegistered ==
    \A i \in 1..Len(b.objects) :
        /\ b.objects[i].of \in DOMAIN b.typeRegistry
        /\ b.typeRegistry[b.objects[i].of] = ObjectNode(i)

\* Every mapping of a struct type, as T or as *T, that returned a node
\* returned the node of the registry.
MappingsReturnTheEntry ==
    \A i \in 1..Len(log) :
        (log[i].op = "TypeAsGraphqlField" /\ log[i].err = "" /\ ~log[i].crash) =>
            /\ <<BaseName(log[i].arg)>> \in DOMAIN b.typeRegistry
            /\ ObjectsIn(log[i].type) = {b.typeRegistry[<<BaseName(log[i].arg)>>].id}

\* C20: the type registry only grows during a build: once it holds a node for
\* a struct type, that entry is never replaced or removed, and every later
\* mapping of that type, as T or as *T, returns that same node, so that at
\* most one object node per struct type is ever handed out by a builder.
C20_RegistryOnlyGrows ==
    /\ [](OneObjectPerStruct /\ ObjectsAreRegistered /\ MappingsReturnTheEntry)
    /\ [][RegistryKeepsEntries]_vars

\* A, which refers to itself, was mapped as A and then as *A: both calls
\* returned the placeholder that the first call registered.
C20_Witness ==
    /\ Len(log) = 2
    /\ log[1].arg = StructA /\ log[2].arg = Ptr(StructA)
    /\ log[1].err = "" /\ log[2].err = ""
    /\ ~log[1].crash /\ ~log[2].crash
    /\ log[1].type = log[2].type
    /\ log[1].type.kind = "Object"
    /\ b.objects[log[1].type.id].lazy
    /\ StructB \in DOMAIN b.typeRegistry

(***************************************************************************)
(* The roots of a schema and BuildSchemaConfig.  A root instance is        *)
(* modelled by its type, which is all that the builder reads of it.        *)
(***************************************************************************)
\* reflect.TypeOf(root), dereferenced once, joins the keys of rootInstances.
WithRoot(st, root) ==
    IF root = NoInstance THEN st
    ELSE [st EXCEPT !.rootInstances =
              @ \cup {IF Kind(root) = "ptr" THEN Elem(root) ELSE root}]

WithQuery(st, query) == WithRoot([st EXCEPT !.query = query], query)

WithMutation(st, mutation) == WithRoot([st EXCEPT !.mutation = mutation], mutation)

WithSubscription(st, subscription) ==
    WithRoot([st EXCEPT !.subscription = subscription], subscription)

\* A failed type assertion panics: the call does not return.
Panicked(st) == [st |-> st, type |-> Nil, err |-> "", crash |-> TRUE]

\* One block of BuildSchemaConfig: the object of a root, nil without one.
RootObject(root, st) ==
    IF root = NoInstance THEN Returned(st, Nil)
    ELSE Then(TypeAsGraphqlField(root, st, MaxDepth),
              LAMBDA g : IF g.type.kind # "Object" THEN Panicked(g.st) ELSE g)

\* The error of a failed block is the mapper's, wrapped (%w).
BuildSchemaConfig(st) ==
    Then(RootObject(st.query, st),
         LAMBDA q :
             Then(RootObject(st.mutation, q.st),
                  LAMBDA m :
                      Then(RootObject(st.subscription, m.st),
                           LAMBDA s :
                               Returned(s.st, [Query        |-> q.type,
                                               Mutation     |-> m.type,
                                               Subscription |-> s.type]))))

(***************************************************************************)
(* Schema builds.  The program declares A, B and In.  A's fields may be of *)
(* a map type, tagged, excluded ("-"), untagged, as a list element or as a *)
(* pointer target; B and In may hold a map likewise.  A's methods are      *)
(* drawn from a lifecycle hook, a resolver with the input In, two getters, *)
(* a method named after the field F1 that is no resolver, and a resolver   *)
(* that returns a map.  Roots are set at any time and up to MaxCalls       *)
(* builds are made on one builder.                                         *)
(***************************************************************************)
BuildFieldChoices ==
    {<<<<"a">>, StringType>>, <<<<"m">>, MapType>>, <<<<"-">>, MapType>>,
     <<<<>>, MapType>>, <<<<"l">>, SliceOf(MapType)>>, <<<<"p">>, Ptr(MapType)>>,
     <<<<"b">>, Ptr(StructB)>>}

NestedFieldChoices ==
    {<<<<"a">>, StringType>>, <<<<"m">>, MapType>>, <<<<"-">>, MapType>>}

\* ResolvePrefix + strings.Title(field.Name)
ResolveMethodName(field) == <<"R", "esolve", field.name>>

\* func (a *A) AfterFind(tx int) error
AfterFind == Method(<<"A", "fterFind">>, TRUE, <<IntType>>, <<ErrorType>>)

\* func (a *A) Lookup(ctx context.Context, in In) (*B, error)
Lookup == Method(<<"L", "ookup">>, TRUE, <<ContextType, StructIn>>, <<Ptr(StructB), ErrorType>>)

\* func (a *A) Meta() map[string]string
Meta == Method(<<"M", "eta">>, TRUE, <<>>, <<MapType>>)

\* func (a *A) Other() *B
Other == Method(<<"O", "ther">>, TRUE, <<>>, <<Ptr(StructB)>>)

\* func (a *A) ResolveF1(x, y int) string
ResolveF1 ==
    Method(ResolveMethodName(Field("F1", <<>>, StringType)), TRUE,
           <<IntType, IntType>>, <<StringType>>)

\* func (a *A) Stats(ctx context.Context) (map[string]int, error)
Stats == Method(<<"S", "tats">>, TRUE, <<ContextType>>, <<MapType, ErrorType>>)

\* The methods that A may declare, in the order of reflect: by name.
BuildMethodSets ==
    {<<>>, <<AfterFind>>, <<Lookup>>, <<Meta>>, <<Other>>, <<ResolveF1>>, <<Stats>>,
     <<AfterFind, Other>>, <<Lookup, ResolveF1>>}

BuildPrograms ==
    {[A  |-> [Struct("p", "A", FieldsOf(fa)) EXCEPT !.methods = ms],
      B  |-> Struct("p", "B", FieldsOf(<<fb>>)),
      In |-> Struct("p", "In", FieldsOf(<<fi>>))] :
        fa \in SeqsUpTo(BuildFieldChoices, MaxRootFields),
        fb \in NestedFieldChoices, fi \in NestedFieldChoices, ms \in BuildMethodSets}

\* A query root of time.Time maps to a scalar.
QueryRoots == {NoInstance, Ptr(StructA), TimeType}

OtherRoots == {Ptr(StructB)}

BuildInit ==
    /\ prog \in BuildPrograms
    /\ b = NewSchemaBuilder
    /\ log = <<>>
    /\ TagIdle
    /\ ClassifyIdle
    /\ ResolveIdle

BuildUnchanged == UNCHANGED <<prog, tagVars, classifyVars, resolves>>

SetQuery ==
    /\ Alive
    /\ \E query \in QueryRoots : b' = WithQuery(b, query)
    /\ UNCHANGED log
    /\ BuildUnchanged

SetMutation ==
    /\ Alive
    /\ \E mutation \in OtherRoots : b' = WithMutation(b, mutation)
    /\ UNCHANGED log
    /\ BuildUnchanged

SetSubscription ==
    /\ Alive
    /\ \E subscription \in OtherRoots : b' = WithSubscription(b, subscription)
    /\ UNCHANGED log
    /\ BuildUnchanged

\* The errors made by a call that led from the builder before to after.
RaisedBetween(before, after) ==
    SubSeq(after.raised, Len(before.raised) + 1, Len(after.raised))

Build ==
    /\ Alive
    /\ Len(log) < MaxCalls
    /\ \E r \in {BuildSchemaConfig(b)} :
           /\ b' = r.st
           /\ log' = Append(log, [op           |-> "BuildSchemaConfig",
                                  query        |-> b.query,
                                  mutation     |-> b.mutation,
                                  subscription |-> b.subscription,
                                  config       |-> r.type,
                                  err          |-> r.err,
                                  crash        |-> r.crash,
                                  raised       |-> RaisedBetween(b, r.st)])
    /\ BuildUnchanged

BuildNext == SetQuery \/ SetMutation \/ SetSubscription \/ Build

SpecBuild == BuildInit /\ [][BuildNext]_vars

(***************************************************************************)
(* Claims about schema builds, checked under SpecBuild.                    *)
(***************************************************************************)
\* The builds that returned.
Builds == {i \in 1..Len(log) : log[i].op = "BuildSchemaConfig" /\ ~log[i].crash}

\* The errors that arose during the i-th call.
Arisen(i) == {log[i].raised[k].why : k \in 1..Len(log[i].raised)}

\* C14: whenever a classification or mapping error arises for a type, field
\* or method reached during BuildSchemaConfig, BuildSchemaConfig returns
\* that error and a nil configuration, never a configuration built from
\* the part of the graph that did map.
C14_AnyErrorAbortsTheBuild ==
    \A i \in Builds :
        Arisen(i) # {} =>
            /\ log[i].err \in Arisen(i)
            /\ log[i].config = Nil

\* The errors with which the two mappers reject a map type.
MapRejections == {"MapNotSupported", UnsupportedType("map")}

\* A type that is a map or a list of or pointer to one.
RECURSIVE HoldsMap(_)
HoldsMap(t) == IF Len(t) > 1 THEN HoldsMap(Elem(t)) ELSE Kind(t) = "map"

\* The field is excluded by its annotation: untagged or tagged "-".
Excluded(field) == field.tag \in {<<>>, <<"-">>}

\* Every map of the program is carried by an excluded struct field.
MapsOnlyExcluded ==
    /\ \A s \in DOMAIN prog :
           \A k \in 1..Len(prog[s].fields) :
               HoldsMap(prog[s].fields[k].type) => Excluded(prog[s].fields[k])
    /\ \A s \in DOMAIN prog :
           \A k \in 1..Len(prog[s].methods) :
               \A o \in 1..Len(prog[s].methods[k].out) :
                   ~HoldsMap(prog[s].methods[k].out[o])

\* C15: mapping a map type is always rejected with an error, wherever the
\* map occurs (struct field, list element, pointer target, method return,
\* input field); a map carried by an excluded struct field (untagged or
\* tagged "-") is not mapped and the build is unaffected by it.
C15_MapsAlwaysRejected ==
    \A i \in Builds :
        /\ Arisen(i) \cap MapRejections # {} => log[i].err \in MapRejections
        /\ MapsOnlyExcluded => Arisen(i) \cap MapRejections = {}

\* The methods whose classification failed during the i-th call.
Unclassifiable(i) ==
    {log[i].raised[k].method :
         k \in {k \in 1..Len(log[i].raised) : log[i].raised[k].method # <<>>}}

\* The method name is Resolve<FieldName> for a tagged field of A.
NamedAfterTaggedField(name) ==
    \E k \in 1..Len(prog.A.fields) :
        /\ ~Excluded(prog.A.fields[k])
        /\ name = ResolveMethodName(prog.A.fields[k])

\* No error arose in the i-th call but the classification failures of
\* methods that are not named after a tagged field.
OnlySkippableFailures(i) ==
    \A k \in 1..Len(log[i].raised) :
        /\ log[i].raised[k].method # <<>>
        /\ ~NamedAfterTaggedField(log[i].raised[k].method)

\* The methods of A that failed classification and have no getter's shape
\* are no fields of the query object.
SkippedMethodsAbsent(i) ==
    \A k \in 1..Len(prog.A.methods) :
        LET method == prog.A.methods[k]
        IN  (/\ log[i].query = Ptr(StructA)
             /\ method.name \in Unclassifiable(i)
             /\ (method.in # <<>> \/ Len(method.out) # 1)) =>
                LowerFirst(method.name) \notin DOMAIN FinishedFields(log[i].config.Query.id)

\* C19: during object expansion an exported method that fails
\* classification is skipped without failing the build, except when it is
\* named Resolve<FieldName> for a tagged field of the same struct: then the
\* classification failure is reported and the build fails.
C19_FailedClassificationSkippedUnlessNamedResolve ==
    \A i \in Builds :
        /\ OnlySkippableFailures(i) => log[i].err = "" /\ SkippedMethodsAbsent(i)
        /\ (\E name \in Unclassifiable(i) : NamedAfterTaggedField(name)) =>
               /\ log[i].err # ""
               /\ log[i].config = Nil

(***************************************************************************)
(* Custom types.  The program declares Money, a struct with a tagged       *)
(* field, and Holder, which may hold a Money in a field (by value, by      *)
(* pointer or in a list) and return one from a getter or a resolver.       *)
(* RegisterCustomType is called at any time for Money or *Money, each with *)
(* a scalar of its own, and up to MaxCalls calls of the two mappers are    *)
(* made on one builder.                                                    *)
(***************************************************************************)
Money == <<"Money">>

Holder == <<"Holder">>

HolderFieldChoices ==
    {<<<<"a">>, StringType>>, <<<<"m">>, Money>>, <<<<"m">>, Ptr(Money)>>,
     <<<<"m">>, SliceOf(Money)>>}

\* func (h *Holder) Price() Money
Price == Method(<<"P", "rice">>, TRUE, <<>>, <<Money>>)

\* func (h *Holder) Total(ctx context.Context) (*Money, error)
Total == Method(<<"T", "otal">>, TRUE, <<ContextType>>, <<Ptr(Money), ErrorType>>)

CustomPrograms ==
    {[Money  |-> Struct("p", "Money", FieldsOf(<<<<<<"a">>, IntType>>>>)),
      Holder |-> [Struct("p", "Holder", FieldsOf(<<fh>>)) EXCEPT !.methods = ms]] :
        fh \in HolderFieldChoices, ms \in {<<>>, <<Price>>, <<Total>>}}

\* The types given to RegisterCustomType and the scalar given with each.
CustomTypes == {Money, Ptr(Money)}

CustomScalar(goType) == IF goType = Money THEN Scalar("Money") ELSE Scalar("MoneyRef")

CustomRoots == {Money, Ptr(Money), Ptr(Ptr(Money)), Ptr(Holder)}

CustomInit ==
    /\ prog \in CustomPrograms
    /\ b = NewSchemaBuilder
    /\ log = <<>>
    /\ TagIdle
    /\ ClassifyIdle
    /\ ResolveIdle

RegisterCustom ==
    /\ Alive
    /\ \E goType \in CustomTypes :
           b' = RegisterCustomType(b, goType, CustomScalar(goType))
    /\ UNCHANGED log
    /\ BuildUnchanged

\* A call of mapper on t: the log keeps the custom types of the time and
\* whether the call left the builder as it was.
Mapped(mapper, t, r) ==
    /\ b' = r.st
    /\ log' = Append(log, [op          |-> mapper,
                           arg         |-> t,
                           customTypes |-> b.customTypes,
                           untouched   |-> r.st = b,
                           type        |-> r.type,
                           err         |-> r.err,
                           crash       |-> r.crash])

CustomField ==
    /\ Alive
    /\ Len(log) < MaxCalls
    /\ \E t \in CustomRoots :
           \E r \in {TypeAsGraphqlField(t, b, MaxDepth)} :
               Mapped("TypeAsGraphqlField", t, r)
    /\ BuildUnchanged

CustomArgument ==
    /\ Alive
    /\ Len(log) < MaxCalls
    /\ \E t \in CustomRoots :
           \E r \in {TypeAsGraphqlArgumentConfig(t, b, MaxDepth)} :
               Mapped("TypeAsGraphqlArgumentConfig", t, r)
    /\ BuildUnchanged

CustomNext == RegisterCustom \/ CustomField \/ CustomArgument

SpecCustom == CustomInit /\ [][CustomNext]_vars

(***************************************************************************)
(* Claims about custom types, checked under SpecCustom.                    *)
(***************************************************************************)
\* The registered type that a call on t hits: t itself or, for a pointer,
\* its target.
CustomHit(t, customTypes) ==
    IF t \in DOMAIN customTypes THEN t
    ELSE IF Kind(t) = "ptr" /\ Elem(t) \in DOMAIN customTypes THEN Elem(t)
    ELSE Nil

\* Every call on a registered T or on *T returned T's scalar and left the
\* builder as it was.
CustomTypesShortCircuit ==
    \A i \in 1..Len(log) :
        \A T \in DOMAIN log[i].customTypes :
            log[i].arg \in {T, Ptr(T)} =>
                /\ log[i].err = "" /\ ~log[i].crash
                /\ log[i].type = log[i].customTypes[CustomHit(log[i].arg, log[i].customTypes)]
                /\ log[i].untouched

\* T is held by none of the type registry, the fields cache and the
\* processing set, now or before, and no object was made for it.
NotExpanded(T, st) ==
    /\ T \notin DOMAIN st.typeRegistry
    /\ T \notin DOMAIN st.fieldsCache
    /\ T \notin st.processing
    /\ T \notin st.processed
    /\ \A k \in 1..Len(st.objects) : st.objects[k].of # T

\* No step expands a registered type that was not expanded before.
CustomTypesNotExpanded ==
    \A T \in DOMAIN b.customTypes : NotExpanded(T, b) => NotExpanded(T, b')

\* C16: for every type T registered with RegisterCustomType both mappers
\* return the registered scalar for T and for *T without kind dispatch on
\* T: no field or method of T is expanded and T is never added to the type
\* registry, the processing set or the fields cache.
C16_CustomTypesShortCircuit ==
    []CustomTypesShortCircuit /\ [][CustomTypesNotExpanded]_vars

\* Both mappers were called on a pointer to the registered struct Money,
\* of a program in which Holder holds one, and a later call mapped Holder.
C16_Witness ==
    /\ Len(log) = MaxCalls
    /\ Money \in DOMAIN log[1].customTypes
    /\ log[1].arg = Ptr(Money)
    /\ log[1].type = Scalar("Money")
    /\ log[2].arg = Ptr(Holder)
    /\ log[2].op = "TypeAsGraphqlField"
    /\ Money \in DOMAIN log[2].customTypes
    /\ log[2].err = ""
    /\ prog.Holder.fields[1].type = Ptr(Money)

(***************************************************************************)
(* The classifier on wrapped marker types.  SpecMarkers draws the callable *)
(* from signatures whose parameters are the marker types, bare, behind a   *)
(* pointer and in a slice, and whose returns hold the error type likewise. *)
(***************************************************************************)
MarkerParamTypes ==
    {ContextType, Ptr(ContextType), SliceOf(ContextType), InfoType, Ptr(InfoType),
     SliceOf(InfoType), Tagged, Ptr(Tagged)}

MarkerReturnTypes == {StringType, ErrorType, Ptr(ErrorType), SliceOf(ErrorType)}

MarkerCallables ==
    {[in |-> i, out |-> o] :
        i \in SeqsUpTo(MarkerParamTypes, MaxMarkerParams),
        o \in SeqsUpTo(MarkerReturnTypes, MaxReturns)}

MarkersInit ==
    /\ prog = ClassifierProgram
    /\ fn \in MarkerCallables
    /\ isBound \in BOOLEAN
    /\ rinfo = Unclassified
    /\ TagIdle
    /\ BuilderIdle
    /\ ResolveIdle

SpecMarkers == MarkersInit /\ [][ClassifyNext]_vars

(***************************************************************************)
(* Claims about wrapped marker types, checked under SpecMarkers.           *)
(***************************************************************************)
\* The Go indices of the parameters, the bound receiver left out, whose type
\* is marker, bare or behind one pointer or slice.
ParamsOf(marker) ==
    {j \in (IF isBound THEN 1 ELSE 0)..(Len(fn.in) - 1) : Deref1(fn.in[j + 1]) = marker}

ReturnsOfError == {j \in 0..(Len(fn.out) - 1) : Deref1(fn.out[j + 1]) = ErrorType}

\* The slot holds one of the positions js, with that position's type, and
\* the other slot holds none of them.
HeldBy(slot, other, js, types) ==
    js # {} =>
        /\ slot # Nil
        /\ slot.Index \in js
        /\ slot.Type = types[slot.Index + 1]
        /\ other = Nil \/ other.Index \notin js

\* Every parameter but the receiver is a marker, wrapped or not.
OnlyMarkerParams ==
    \A j \in (IF isBound THEN 1 ELSE 0)..(Len(fn.in) - 1) : IsMarkerParam(fn.in[j + 1])

\* C23: a parameter whose type is a pointer to or a slice of the context
\* marker or the query-metadata marker is classified into that marker's
\* role, not into the input role, one level of wrapping being stripped
\* before the comparison; a return that is a pointer to or a slice of the
\* error type is likewise the error slot.
C23_WrappedMarkersKeepTheirRole ==
    /\ Accepted =>
           /\ HeldBy(rinfo.Context, rinfo.Input, ParamsOf(ContextType), fn.in)
           /\ HeldBy(rinfo.Info, rinfo.Input, ParamsOf(InfoType), fn.in)
           /\ HeldBy(rinfo.Error, rinfo.Output, ReturnsOfError, fn.out)
    /\ (WasRejected /\ OnlyMarkerParams) =>
           rinfo.err \notin {"AmbiguousInput", "InputNotStruct", "InputNoTag"}

\* An accepted callable that takes a pointer to the context and a slice of
\* the metadata and returns a pointer to an error.
C23_Witness ==
    /\ Accepted
    /\ fn.in = <<Ptr(ContextType), SliceOf(InfoType)>>
    /\ fn.out = <<StringType, Ptr(ErrorType)>>
    /\ rinfo.Context.Index = 0
    /\ rinfo.Info.Index = 1
    /\ rinfo.Error.Index = 1
    /\ rinfo.Input = Nil

(***************************************************************************)
(* The classifier on inputs that are no structs.  SpecInputs draws the     *)
(* callable from signatures whose parameters are structs, scalars and      *)
(* either of them behind pointers and in slices.                           *)
(***************************************************************************)
InputParamTypes ==
    {ContextType, Tagged, Ptr(Tagged), SliceOf(Tagged), SliceOf(Ptr(Tagged)),
     Ptr(Ptr(Tagged)), StringType, Ptr(StringType), SliceOf(StringType)}

InputReturnTypes == {StringType, ErrorType}

InputCallables ==
    {[in |-> i, out |-> o] :
        i \in SeqsUpTo(InputParamTypes, MaxMarkerParams),
        o \in SeqsUpTo(InputReturnTypes, MaxReturns)}

InputsInit ==
    /\ prog = ClassifierProgram
    /\ fn \in InputCallables
    /\ isBound \in BOOLEAN
    /\ rinfo = Unclassified
    /\ TagIdle
    /\ BuilderIdle
    /\ ResolveIdle

SpecInputs == InputsInit /\ [][ClassifyNext]_vars

(***************************************************************************)
(* Claims about inputs, checked under SpecInputs.                          *)
(***************************************************************************)
\* A type with one level of pointer removed.
StripPointer(t) == IF Kind(t) = "ptr" THEN Elem(t) ELSE t

\* The input parameters of the callable: those that are no marker.
InputParams == {Params(fn, isBound)[i] : i \in NonMarkerParams(fn, isBound)}

Dashed == <<"Dashed">>

DashedProgram ==
    [Tagged   |-> ClassifierProgram.Tagged,
     NoTagged |-> ClassifierProgram.NoTagged,
     Info     |-> ClassifierProgram.Info,
     Dashed   |-> Struct("gql", "Dashed", FieldsOf(<<<<<<"-">>, StringType>>,
                                                     <<<<>>, StringType>>>>))]

DashedParamTypes == {ContextType, Tagged, NoTagged, Dashed, Ptr(Dashed)}

DashedReturnTypes == {StringType, ErrorType, Tagged, NoTagged, Dashed, Ptr(Dashed)}

DashedCallables ==
    {[in |-> i, out |-> o] :
        i \in SeqsUpTo(DashedParamTypes, MaxMarkerParams),
        o \in SeqsUpTo(DashedReturnTypes, MaxReturns)}

DashedInit ==
    /\ prog = DashedProgram
    /\ fn \in DashedCallables
    /\ isBound \in BOOLEAN
    /\ rinfo = Unclassified
    /\ TagIdle
    /\ BuilderIdle
    /\ ResolveIdle

SpecDashed == DashedInit /\ [][ClassifyNext]_vars

\* The struct type exposes no field: each is untagged or tagged "-".
ExposesNoField(t) ==
    /\ IsStruct(t)
    /\ \A k \in 1..Len(VisibleFields(t)) : Excluded(VisibleFields(t)[k])

\* C29: a struct whose every field is untagged or excluded with "-" exposes
\* no field and is rejected by classification as an input type and as a
\* struct output type, like a struct with no gql tag at all.
C29_AllExcludedStructRejected ==
    Classified =>
        /\ (\E p \in InputParams : ExposesNoField(Deref1(p))) => WasRejected
        /\ (\E j \in NonErrorReturns(fn) : ExposesNoField(Deref1(fn.out[j]))) =>
               WasRejected

(***************************************************************************)
(* Claims about revisits of the input mapper, checked under SpecArgs.      *)
(***************************************************************************)
\* The exposed names of the annotated fields of the struct type.
AnnotatedNames(t) ==
    {AnnotatedLayout(t)[k][1] : k \in 1..Len(AnnotatedLayout(t))}

\* The i-th call returned an input object for its struct.
ReturnedInputObject(i) ==
    /\ log[i].op = "TypeAsGraphqlArgumentConfig"
    /\ log[i].err = "" /\ ~log[i].crash

\* C27: every input-object node that TypeAsGraphqlArgumentConfig returns
\* for a struct carries the full set of the struct's annotated fields, also
\* on the second and later visits of the same struct, or of a struct
\* deduplicated to the same canonical name, by the same builder.
C27_InputObjectsCarryAllFields ==
    \A i \in 1..Len(log) :
        ReturnedInputObject(i) =>
            DOMAIN InputObjectIn(log[i].type).fields = AnnotatedNames(InputStruct(i))

(***************************************************************************)
(* The input mapper on input structs that refer to input structs.  I1 may  *)
(* refer to itself through a pointer or a slice and to I2, and I2 to I1.   *)
(* The calls are those of SpecArgs.                                        *)
(***************************************************************************)
SelfFieldChoices ==
    {<<<<"a">>, StringType>>, <<<<"n">>, Ptr(I1)>>, <<<<"l">>, SliceOf(I1)>>,
     <<<<"o">>, Ptr(I2)>>, <<<<"-">>, Ptr(I1)>>}

BackFieldChoices == {<<<<"a">>, StringType>>, <<<<"p">>, Ptr(I1)>>, <<<<"v">>, I1>>}

InputCyclePrograms ==
    {[I1 |-> Struct("p", "X", FieldsOf(f1)),
      I2 |-> Struct("p", "Y", FieldsOf(<<f2>>))] :
        f1 \in SeqsUpTo(SelfFieldChoices, MaxInputFields), f2 \in BackFieldChoices}

InputCyclesInit ==
    /\ prog \in InputCyclePrograms
    /\ b = NewSchemaBuilder
    /\ log = <<>>
    /\ TagIdle
    /\ ClassifyIdle
    /\ ResolveIdle

SpecInputCycles == InputCyclesInit /\ [][ArgsNext]_vars

\* The struct types that the annotated fields of s refer to.
InputRefs(s) ==
    {<<BaseName(AnnotatedLayout(s)[k][2])>> : k \in 1..Len(AnnotatedLayout(s))}
        \cap {I1, I2}

\* The struct type of the argument reaches itself, or a struct that does,
\* through annotated fields.
CyclicInput(t) ==
    LET root == <<BaseName(t)>>
        one  == InputRefs(root)
        two  == one \cup UNION {InputRefs(s) : s \in one}
    IN  \E s \in two \cup {root} : s \in InputRefs(s) \/ (\E u \in InputRefs(s) : s \in InputRefs(u))

\* C28: TypeAsGraphqlArgumentConfig terminates on every input struct type,
\* also on an input struct that refers to itself through a pointer or slice
\* field and on two input structs that refer to each other: no call
\* exhausts the call stack.
C28_InputMapperTerminates ==
    \A i \in 1..Len(log) :
        log[i].op = "TypeAsGraphqlArgumentConfig" => ~log[i].crash

(***************************************************************************)
(* Schema builds over cyclic structs.  A may hold a *B and return one from *)
(* the getter Other; B may refer to itself and to A and may hold a map.    *)
(* The calls are those of SpecBuild.                                       *)
(***************************************************************************)
CycleFieldChoices ==
    {<<<<"a">>, StringType>>, <<<<"s">>, Ptr(StructB)>>, <<<<"m">>, MapType>>,
     <<<<"p">>, Ptr(StructA)>>}

CyclePrograms ==
    {[A  |-> [Struct("p", "A", FieldsOf(fa)) EXCEPT !.methods = ms],
      B  |-> Struct("p", "B", FieldsOf(fb)),
      In |-> Struct("p", "In", FieldsOf(<<<<<<"a">>, StringType>>>>))] :
        fa \in SeqsUpTo({<<<<"a">>, StringType>>, <<<<"b">>, Ptr(StructB)>>}, MaxRootFields),
        fb \in SeqsUpTo(CycleFieldChoices, MaxFields),
        ms \in {<<>>, <<Other>>}}

CyclesInit ==
    /\ prog \in CyclePrograms
    /\ b = NewSchemaBuilder
    /\ log = <<>>
    /\ TagIdle
    /\ ClassifyIdle
    /\ ResolveIdle

SpecCycles == CyclesInit /\ [][BuildNext]_vars

\* The placeholders that the type registry holds.
RegisteredPlaceholders ==
    {k \in 1..Len(b.objects) :
         /\ b.objects[k].lazy
         /\ b.objects[k].of \in DOMAIN b.typeRegistry
         /\ b.typeRegistry[b.objects[k].of] = ObjectNode(k)}

\* The last call was a build that returned a configuration.
BuiltLast ==
    /\ log # <<>>
    /\ log[Len(log)].op = "BuildSchemaConfig"
    /\ log[Len(log)].err = "" /\ ~log[Len(log)].crash

\* C25: whenever BuildSchemaConfig returns successfully, every placeholder
\* registered in the type registry for a cyclic reference has an entry for
\* its type in the fields cache, so that no placeholder resolves to the
\* empty field set; also when an expansion error was swallowed on the
\* getter path.
C25_PlaceholdersHaveCachedFields ==
    BuiltLast =>
        \A k \in RegisteredPlaceholders : b.objects[k].of \in DOMAIN b.fieldsCache

(***************************************************************************)
(* The output mapper on structs that declare GraphQLTypeName.  A and B may *)
(* each declare the method and may refer to themselves and to each other.  *)
(* The calls are those of SpecFields.                                      *)
(***************************************************************************)
NamedFieldChoices ==
    {<<<<"a">>, StringType>>, <<<<"s">>, Ptr(StructA)>>, <<<<"b">>, Ptr(StructB)>>}

NamedPrograms ==
    {[A  |-> [Struct("p", "A", FieldsOf(fa)) EXCEPT !.override = na],
      B  |-> [Struct("p", "B", FieldsOf(<<fb>>)) EXCEPT !.override = nb],
      In |-> Struct("p", "In", FieldsOf(<<<<<<"a">>, StringType>>>>))] :
        fa \in SeqsUpTo(NamedFieldChoices, MaxFields),
        fb \in {<<<<"a">>, StringType>>, <<<<"p">>, Ptr(StructA)>>},
        na \in {"", "N"}, nb \in {"", "M"}}

NamesInit ==
    /\ prog \in NamedPrograms
    /\ b = NewSchemaBuilder
    /\ log = <<>>
    /\ TagIdle
    /\ ClassifyIdle
    /\ ResolveIdle

SpecNames == NamesInit /\ [][FieldsNext]_vars

\* The objects that the type registry holds.
RegisteredObjects ==
    {k \in 1..Len(b.objects) :
         /\ b.objects[k].of \in DOMAIN b.typeRegistry
         /\ b.typeRegistry[b.objects[k].of] = ObjectNode(k)}

\* C30: for a struct type that declares the zero-argument naming method
\* GraphQLTypeName the object node registered for the type carries the
\* override name in every case, also when the type takes part in a
\* reference cycle and its node was created as a placeholder.
C30_RegisteredObjectsCarryOverride ==
    \A k \in RegisteredObjects :
        Decl(b.objects[k].of).override # "" =>
            b.objects[k].name = Decl(b.objects[k].of).override

(***************************************************************************)
(* Claims about the order of mapping, checked under SpecFields.            *)
(***************************************************************************)
\* The names of the fields that the finished object of a struct type has in
\* the builder st, none without an object.
FieldNamesIn(st, t) ==
    IF t \notin DOMAIN st.typeRegistry THEN {}
    ELSE LET o == st.objects[st.typeRegistry[t].id]
         IN  IF ~o.lazy THEN DOMAIN o.fields
             ELSE IF t \in DOMAIN st.fieldsCache THEN DOMAIN st.fieldsCache[t]
             ELSE {}

\* The field names of A's object when a new builder maps the type first.
FieldNamesFirstAs(first) ==
    FieldNamesIn(TypeAsGraphqlField(first, NewSchemaBuilder, MaxDepth).st, StructA)

\* The first call of the builder mapped A or *A and returned.
MappedFirst ==
    /\ log # <<>>
    /\ log[1].arg \in {StructA, Ptr(StructA)}
    /\ log[1].err = "" /\ ~log[1].crash

\* C26: the field set of the object registered for a struct type does not
\* depend on the order in which the type is reached: it is the same whether
\* the type is first mapped as the value type or as the pointer type, the
\* fields of its pointer-receiver methods included.
C26_FieldSetIndependentOfOrder ==
    MappedFirst =>
        /\ FieldNamesIn(b, StructA) = FieldNamesFirstAs(StructA)
        /\ FieldNamesIn(b, StructA) = FieldNamesFirstAs(Ptr(StructA))

(***************************************************************************)
(* The mappers on annotations.  A and In, the input of A's resolver Find,  *)
(* hold fields that are tagged with and without the nonNull flag,          *)
(* untagged and tagged "-".  The calls are those of SpecFields.            *)
(***************************************************************************)
AnnotationChoices ==
    {<<<<"a">>, StringType>>, <<<<"a", Comma, "nonNull">>, StringType>>,
     <<<<"b">>, IntType>>, <<<<"b", Comma, "nonNull">>, SliceOf(StringType)>>,
     <<<<>>, StringType>>, <<<<"-">>, StringType>>,
     <<<<"-", Comma, "nonNull">>, StringType>>, <<<<Comma, "nonNull">>, StringType>>}

AnnotatedPrograms ==
    {[A  |-> [Struct("p", "A", FieldsOf(fa)) EXCEPT !.methods = <<Find>>],
      B  |-> Struct("p", "B", FieldsOf(<<<<<<"a">>, StringType>>>>)),
      In |-> Struct("p", "In", FieldsOf(fi))] :
        fa \in SeqsUpTo(AnnotationChoices, MaxFields),
        fi \in SeqsUpTo(AnnotationChoices, MaxFields)}

AnnotationsInit ==
    /\ prog \in AnnotatedPrograms
    /\ b = NewSchemaBuilder
    /\ log = <<>>
    /\ TagIdle
    /\ ClassifyIdle
    /\ ResolveIdle

SpecAnnotations == AnnotationsInit /\ [][FieldsNext]_vars

\* The scalar or list that a field type of the annotated programs maps to.
RECURSIVE MappedScalar(_)
MappedScalar(t) ==
    IF Kind(t) = "slice" THEN NewList(MappedScalar(Elem(t)))
    ELSE IF Kind(t) = "int" THEN Scalar("Int")
    ELSE Scalar("String")

\* The annotation of the k-th field of the struct.
Annotation(s, k) == ParseGqlTag(VisibleFields(s)[k].tag)

Exposed(s, k) == Annotation(s, k).FieldName \notin {<<>>, <<"-">>}

ExposedNames(s) ==
    {Annotation(s, k).FieldName : k \in {k \in 1..Len(VisibleFields(s)) : Exposed(s, k)}}

\* No other exposed field of the struct has the exposed name of the k-th.
NameUnshared(s, k) ==
    \A j \in 1..Len(VisibleFields(s)) :
        (j # k /\ Exposed(s, j)) => Annotation(s, j).FieldName # Annotation(s, k).FieldName

\* types maps exposed names to schema types: the exposed fields of s are
\* its names, each wrapped exactly when flagged.
FieldsAsAnnotated(s, names, types) ==
    /\ names = ExposedNames(s)
    /\ \A k \in 1..Len(VisibleFields(s)) :
           (Exposed(s, k) /\ NameUnshared(s, k)) =>
               types[Annotation(s, k).FieldName] =
                   IF Annotation(s, k).NonNull
                   THEN NewNonNull(MappedScalar(VisibleFields(s)[k].type))
                   ELSE MappedScalar(VisibleFields(s)[k].type)

\* The fields of A's registered object and the name of the field of Find.
ObjectOfA == FinishedFields(b.typeRegistry[StructA].id)

FindName == LowerFirst(Find.name)

ProcessingNext == GraphqlField \/ SetQuery \/ Build

SpecProcessing == CyclesInit /\ [][ProcessingNext]_vars

\* C21: the processing set equals the set of the struct types whose
\* expansion is on the recursion stack, at every point: a type is added when
\* its expansion starts and removed when it returns, with an error too, and
\* the set is empty whenever a top-level TypeAsGraphqlField or
\* BuildSchemaConfig call has returned.
C21_ProcessingIsTheRecursionStack ==
    Alive =>
        /\ ~b.strayed
        /\ b.expanding = <<>>
        /\ b.processing = {}

\* One call of each kind has returned, one of them with the error of a map
\* field met two expansions deep, inside a cycle.
C21_Witness ==
    /\ Len(log) = 2
    /\ log[1].op = "TypeAsGraphqlField" /\ log[1].err = "MapNotSupported"
    /\ log[2].op = "BuildSchemaConfig" /\ ~log[2].crash
    /\ b.processed = {StructA, StructB}
    /\ prog.A.fields = FieldsOf(<<<<<<"b">>, Ptr(StructB)>>>>)
    /\ prog.B.fields = FieldsOf(<<<<<<"p">>, Ptr(StructA)>>, <<<<"m">>, MapType>>>>)
    /\ b.processing = {}

====
